---- MODULE Spec2Model ----
(***************************************************************************)
(* A model of vite-plugin-ssg: the static-site generation pipeline with    *)
(* island hydration.  Several state machines share this module:            *)
(*   Spec      the build orchestrator (writeBundle -> generateStaticPages  *)
(*             -> generateStaticWithInfo -> generateStaticPage ->          *)
(*             hosting configurator);                                      *)
(*   SpecHost  sequences of configure() calls on a routing manifest;       *)
(*   SpecCfg   resolveConfig over user configurations;                     *)
(*   SpecScan  scanForIslands and generateHydrationScript over a file set; *)
(*   SpecScanLive  the same scan under fairness, over import graphs;       *)
(*   SpecImg   optimizeImages, its downloads settling one by one;          *)
(*   SpecDiscover  discoverPages over page sources given by their text;    *)
(*   SpecHook  a build whose writeBundle hook fires several times;         *)
(*   SpecDev   the dev-server middleware and its route cache.              *)
(* JavaScript strings are TLA+ strings; Len, \o and SubSeq act on them.    *)
(***************************************************************************)
EXTENDS Integers, Sequences, FiniteSets, TLC

VARIABLES
    \* ---- hosting configurator (firebase.ts)
    manifest,       \* firebase.json on disk
    hostCalls,      \* number of configure() calls made so far
    hostLast,       \* the last configure() call: its arguments, the manifest before, its outcome
    \* ---- config resolver (config.ts)
    userConfig,     \* the SsgBuildConfig handed to resolveConfig
    resolved,       \* the ResolvedSsgConfig it returned
    cfgPc,          \* "input" | "resolved"
    \* ---- the project's files, and the island scanner (island-scanner.ts)
    files,          \* path -> [lines, usages, imports, options]: the files on disk
    scanPc,         \* "traverse" | "validate" | "emit" | "done"
    queue,          \* scanForIslands: the worklist
    visited,        \* scanForIslands: the files already visited
    foundComponentPaths, \* scanForIslands: the Set of referenced paths, in insertion order
    islands,        \* scanForIslands: the validated IslandInfo list
    hydrateScript,  \* generateHydrationScript: the entry module's imports and registry
    reads,          \* history: how many times the traversal read each file
    \* ---- the build orchestrator (dev-middleware.ts ssgPlugin, generator.ts, gen-static.ts)
    options,        \* the resolved plugin options [pages, config, hosting, verbose]
    dirs,           \* directory path -> the names readdirSync returns for it
    isBuild,        \* ssgPlugin: config.command === "build"
    hasRun,         \* ssgPlugin: the run-once flag
    pc,             \* where the run is: "idle", "inputs", a page stage, "done", "failed"
    inputIdx,       \* generateStaticPages: position in options.pages
    discovered,     \* generateStaticWithInfo: `pages`, the discovered pages of the current input
    pageIdx,        \* generateStaticWithInfo: position in `pages`
    locals,         \* generateStaticPage: bodyHtml, headHtml, cssPath, hydratePath, ...
    generatedPages, \* generateStaticWithInfo: the GeneratedPageInfo list
    allPages,       \* generateStaticPages: the accumulated list
    outDir,         \* the output directory: file name -> content
    failure,        \* the error that ended the run, if any
    log,            \* history: the stages started so far, in order
    hookCalls,      \* history: how often writeBundle has fired, how often it started generation
    \* ---- the image optimizer (browser.ts optimizeImages)
    inputHtml,      \* the markup handed to optimizeImages
    imageOptions,   \* its ImageOptimizeOptions
    images,         \* optimizeImages: the ImageInfo list extractImages returned
    uniqueUrls,     \* optimizeImages: the external URLs, each once, in order of first use
    imgPc,          \* "start" | "download" | "process" | "apply" | "done"
    batchStart,     \* the download loop's i
    inFlight,       \* the downloads started and not yet settled
    settled,        \* the settled downloads: url -> TRUE (fulfilled) or FALSE (rejected)
    downloadCache,  \* url -> buffer
    imgIdx,         \* the processing loop's position in `images`
    optimizedImages,\* the OptimizedImage list
    replacements,   \* the Map from an element to its replacement, in insertion order
    imagesDir,      \* {outputDir}/images: file name -> content
    returned,       \* what optimizeImages returned
    attempts,       \* history: url -> how many downloads of it were started
    fileWrites,     \* history: the names of the files written, in order
    \* ---- the dev middleware (dev-middleware.ts createDevMiddleware)
    cachedRoutes,   \* the route cache; null is [loaded |-> FALSE]
    request,        \* the request being handled or last handled
    response,       \* what the middleware did with it
    devCalls,       \* history: the number of requests and watcher events so far
    \* ---- the bundle builders (css-builder.ts, hydration-builder.ts)
    bundleCall,     \* the arguments of the call in progress, and what the bundler will do
    bundlePc,       \* "idle" | "call" | "try" | "built" | "threw" | "returned" | "failed"
    scratch,        \* node_modules/.vite-plugin-ssg: file name -> content
    bundleResult,   \* what the call returned
    unlinked,       \* history: the files of the output directory the call deleted
    \* ---- the inline loader of a generated document, in the browser (html-template.ts)
    document,       \* the document: its loader's src, its islands, the browser's capabilities
    loaderPc,       \* "parsed" | "armed"
    loaded,         \* the loader's flag
    listeners,      \* the document's event listeners still registered
    observer,       \* "none" | "observing" | "disconnected"
    fallback,       \* "none" | "idle" | "timeout" | "fired"
    scriptTags,     \* the script elements appended to the body, by their src
    triggers        \* history: the triggers that have occurred, in order

hostVars == <<manifest, hostCalls, hostLast>>
cfgVars == <<userConfig, resolved, cfgPc>>
scanVars == <<files, scanPc, queue, visited, foundComponentPaths, islands, hydrateScript, reads>>
runVars == <<options, dirs, isBuild, hasRun, pc, inputIdx, discovered, pageIdx, locals,
            generatedPages, allPages, outDir, failure, log>>
imgVars == <<inputHtml, imageOptions, images, uniqueUrls, imgPc, batchStart, inFlight, settled,
            downloadCache, imgIdx, optimizedImages, replacements, imagesDir, returned,
            attempts, fileWrites>>
devVars == <<cachedRoutes, request, response, devCalls>>
bundleVars == <<bundleCall, bundlePc, scratch, bundleResult, unlinked>>
loaderVars == <<document, loaderPc, loaded, listeners, observer, fallback, scriptTags, triggers>>
webVars == <<bundleVars, loaderVars>>
auxVars == <<imgVars, devVars, webVars>>
vars == <<manifest, hostCalls, hostLast, userConfig, resolved, cfgPc,
          files, scanPc, queue, visited, foundComponentPaths, islands, hydrateScript, reads,
          options, dirs, isBuild, hasRun, pc, inputIdx, discovered, pageIdx, locals,
          generatedPages, allPages, outDir, failure, log, hookCalls,
          inputHtml, imageOptions, images, uniqueUrls, imgPc, batchStart, inFlight, settled, downloadCache,
          imgIdx, optimizedImages, replacements, imagesDir, returned, attempts, fileWrites,
          cachedRoutes, request, response, devCalls,
          bundleCall, bundlePc, scratch, bundleResult, unlinked,
          document, loaderPc, loaded, listeners, observer, fallback, scriptTags, triggers>>

(***************************************************************************)
(* String helpers: String.prototype.startsWith / endsWith.                 *)
(***************************************************************************)
StartsWith(s, p) == Len(s) >= Len(p) /\ SubSeq(s, 1, Len(p)) = p

EndsWith(s, p) == Len(s) >= Len(p) /\ SubSeq(s, Len(s) - Len(p) + 1, Len(s)) = p

\* Array.prototype.filter, by position: the elements of s at the positions in I, in order
SubSeqAt(s, I) ==
    LET F[i \in 0..Len(s)] ==
            IF i = 0 THEN <<>>
            ELSE IF i \in I THEN Append(F[i - 1], s[i]) ELSE F[i - 1]
    IN F[Len(s)]

(***************************************************************************)
(* Paths.  Every path of the model is absolute.                            *)
(***************************************************************************)
\* the pieces of a split with character c read: a separator opens a new piece
SplitRead(pieces, c, sep) ==
    IF c = sep THEN Append(pieces, "")
    ELSE [pieces EXCEPT ![Len(pieces)] = @ \o c]

\* String.prototype.split(sep), sep one character.  Here and below a variable bound
\* over a one-element set takes an argument as a value, so that it is evaluated once.
Split(s, sep) ==
    CHOOSE r \in
        { LET F[i \in 0..Len(v)] ==
                  IF i = 0 THEN <<"">>
                  ELSE CHOOSE q \in { SplitRead(pieces, SubSeq(v, i, i), sep) :
                                        pieces \in { F[i - 1] } } : TRUE
          IN F[Len(v)] : v \in { s } } : TRUE

\* node:path normalisation of an absolute path's segments: "" and "." are dropped,
\* ".." drops the segment before it
NormalRead(kept, seg) ==
    IF seg = "" \/ seg = "." THEN kept
    ELSE IF seg = ".."
         THEN IF kept = <<>> THEN <<>> ELSE SubSeq(kept, 1, Len(kept) - 1)
         ELSE Append(kept, seg)

NormalSegments(segs) ==
    CHOOSE r \in
        { LET F[i \in 0..Len(v)] ==
                  IF i = 0 THEN <<>>
                  ELSE CHOOSE q \in { NormalRead(kept, v[i]) : kept \in { F[i - 1] } } : TRUE
          IN F[Len(v)] : v \in { segs } } : TRUE

JoinSegments(segs) ==
    CHOOSE r \in
        { LET F[i \in 0..Len(v)] == IF i = 0 THEN "" ELSE F[i - 1] \o "/" \o v[i]
          IN IF v = <<>> THEN "/" ELSE F[Len(v)] : v \in { segs } } : TRUE

\* node:path join(dir, p), dir absolute
PathJoin(dir, p) == JoinSegments(NormalSegments(Split(dir \o "/" \o p, "/")))

\* node:path resolve(dir, p), dir absolute: an absolute p replaces dir
PathResolve(dir, p) ==
    IF StartsWith(p, "/") THEN JoinSegments(NormalSegments(Split(p, "/")))
    ELSE PathJoin(dir, p)

\* node:path dirname of an absolute file path
PathDirname(file) ==
    CHOOSE r \in
        { IF segs = <<>> THEN "/" ELSE JoinSegments(SubSeq(segs, 1, Len(segs) - 1)) :
            segs \in { NormalSegments(Split(file, "/")) } } : TRUE

(***************************************************************************)
(* Hosting configurator.                                                   *)
(* A rewrite rule is [source, destination, by]: destination "" stands for  *)
(* a rule without a destination (a function or run rewrite; both are       *)
(* falsy to isSsgRewrite).  `by` is a history tag the code does not have   *)
(* and never reads: 0 for a hand-written rule, k for a rule inserted by    *)
(* the k-th configure() call.                                              *)
(***************************************************************************)
Rule(src, dst, tag) == [source |-> src, destination |-> dst, by |-> tag]

\* a slip in isSsgRewrite: the ".html" suffix is not required
IsSsgRewrite_NoSuffix(rewrite, baseUrl) ==
    /\ rewrite.destination # ""
    /\ StartsWith(rewrite.destination, baseUrl \o "/")

\* firebase.ts isSsgRewrite
IsSsgRewrite(rewrite, baseUrl) ==
    /\ rewrite.destination # ""
    /\ StartsWith(rewrite.destination, baseUrl \o "/")
    /\ EndsWith(rewrite.destination, ".html")

\* firebase.ts: the catch-all test of findIndex
IsCatchAll(r) == r.source = "**" \/ r.source = "/**"

\* firebase.ts: pages.map(page => ({source, destination}))
SsgRewrites(pages, baseUrl, tag) ==
    [i \in 1..Len(pages) |->
        Rule(IF pages[i].routeUrl = "/" THEN "/" ELSE pages[i].routeUrl,
             baseUrl \o "/" \o pages[i].slug \o ".html",
             tag)]

\* firebase.ts: existingRewrites.findIndex(catch-all), 1-based; 0 when there is none (JS: -1)
CatchAllIndex(rs) ==
    IF \E i \in 1..Len(rs) : IsCatchAll(rs[i])
    THEN CHOOSE i \in 1..Len(rs) : IsCatchAll(rs[i]) /\ \A j \in 1..(i - 1) : ~IsCatchAll(rs[j])
    ELSE 0

\* a slip in the splice: the block lands after the catch-all
NewRewrites_AfterCatchAll(existingRewrites, ssgRewrites) ==
    LET catchAllIndex == CatchAllIndex(existingRewrites) IN
    IF catchAllIndex >= 1
    THEN SubSeq(existingRewrites, 1, catchAllIndex) \o ssgRewrites
         \o SubSeq(existingRewrites, catchAllIndex + 1, Len(existingRewrites))
    ELSE ssgRewrites \o existingRewrites

\* firebase.ts: the new rules go before the catch-all, or at the beginning
NewRewrites(existingRewrites, ssgRewrites) ==
    LET catchAllIndex == CatchAllIndex(existingRewrites) IN
    IF catchAllIndex >= 1
    THEN SubSeq(existingRewrites, 1, catchAllIndex - 1) \o ssgRewrites
         \o SubSeq(existingRewrites, catchAllIndex, Len(existingRewrites))
    ELSE ssgRewrites \o existingRewrites

(***************************************************************************)
(* The manifest: [exists, hosting, sites].  hosting is "none" (no hosting  *)
(* section), "object" (sites has one element) or "array" (sites are the    *)
(* elements).  A site is [hasRewrites, rewrites].                          *)
(***************************************************************************)
Site(rs) == [hasRewrites |-> TRUE, rewrites |-> rs]

NoRewritesSite == [hasRewrites |-> FALSE, rewrites |-> <<>>]

\* a slip in configure: a hosting section is created when the manifest has none
Configure_CreatesHosting(m, pages, baseUrl, tag) ==
    IF ~m.exists THEN [err |-> "Firebase config not found", manifest |-> m]
    ELSE IF m.hosting # "none" /\ m.sites = <<>>
    THEN [err |-> "TypeError", manifest |-> m]
    ELSE
    LET rewrites == IF m.hosting # "none" /\ m.sites[1].hasRewrites
                    THEN m.sites[1].rewrites ELSE <<>>
        existingRewrites ==
            SubSeqAt(rewrites, { i \in 1..Len(rewrites) : ~IsSsgRewrite(rewrites[i], baseUrl) })
        newRewrites == NewRewrites(existingRewrites, SsgRewrites(pages, baseUrl, tag))
    IN [err |-> "",
        manifest |-> IF m.hosting = "none"
                     THEN [m EXCEPT !.hosting = "object", !.sites = <<Site(newRewrites)>>]
                     ELSE [m EXCEPT !.sites[1] = Site(newRewrites)]]

\* a slip in configure: the rules of earlier calls are not filtered out
Configure_Accumulates(m, pages, baseUrl, tag) ==
    IF ~m.exists THEN [err |-> "Firebase config not found", manifest |-> m]
    ELSE IF m.hosting = "none"
    THEN [err |-> "No hosting configuration found in firebase.json", manifest |-> m]
    ELSE IF m.sites = <<>>
    THEN [err |-> "TypeError", manifest |-> m]
    ELSE
    LET hostingConfig == m.sites[1]
        rewrites == IF hostingConfig.hasRewrites THEN hostingConfig.rewrites ELSE <<>>
        newRewrites == NewRewrites(rewrites, SsgRewrites(pages, baseUrl, tag))
    IN [err |-> "",
        manifest |-> [m EXCEPT !.sites[1] = Site(newRewrites)]]

\* firebase.ts configure: the outcome [err, manifest] of one call
Configure(m, pages, baseUrl, tag) ==
    IF ~m.exists THEN [err |-> "Firebase config not found", manifest |-> m]
    ELSE IF m.hosting = "none"
    THEN [err |-> "No hosting configuration found in firebase.json", manifest |-> m]
    ELSE IF m.sites = <<>>
    THEN \* hosting: [] : config.hosting[0] is undefined, reading .rewrites throws
         [err |-> "TypeError", manifest |-> m]
    ELSE
    LET hostingConfig == m.sites[1]
        rewrites == IF hostingConfig.hasRewrites THEN hostingConfig.rewrites ELSE <<>>
        existingRewrites ==
            SubSeqAt(rewrites, { i \in 1..Len(rewrites) : ~IsSsgRewrite(rewrites[i], baseUrl) })
        ssgRewrites == SsgRewrites(pages, baseUrl, tag)
        newRewrites == NewRewrites(existingRewrites, ssgRewrites)
    IN [err |-> "",
        manifest |-> [m EXCEPT !.sites[1] = Site(newRewrites)]]

(***************************************************************************)
(* SpecHost: configure() called repeatedly on a manifest.                  *)
(***************************************************************************)
MaxHandRules == 3
MaxCalls == 2

\* hand-written rules a manifest may hold
HandRules ==
    { Rule("**", "/index.html", 0),
      Rule("/api/**", "", 0),
      Rule("/docs", "/static/docs.html", 0),
      Rule("/**", "/app.html", 0),
      Rule("/old", "/static/old.htm", 0) }

RECURSIVE SeqsNoRepeat(_, _)
SeqsNoRepeat(S, n) ==
    IF n = 0 THEN { <<>> }
    ELSE LET shorter == SeqsNoRepeat(S, n - 1) IN
         shorter \cup
         { Append(s, x) : <<s, x>> \in
             { <<s, x>> \in shorter \X S : \A i \in 1..Len(s) : s[i] # x } }

HandRuleLists == SeqsNoRepeat(HandRules, MaxHandRules)

InitManifests ==
    { [exists |-> TRUE, hosting |-> "object", sites |-> <<Site(rs)>>] : rs \in HandRuleLists }
    \cup
    { [exists |-> FALSE, hosting |-> "none", sites |-> <<>>],
      [exists |-> TRUE, hosting |-> "none", sites |-> <<>>],
      [exists |-> TRUE, hosting |-> "array", sites |-> <<>>],
      [exists |-> TRUE, hosting |-> "object", sites |-> <<NoRewritesSite>>],
      [exists |-> TRUE, hosting |-> "array",
       sites |-> << Site(<<Rule("**", "/index.html", 0)>>),
                    Site(<<Rule("/docs", "/static/docs.html", 0)>>) >>] }

GenPage(slug, routeUrl) ==
    [slug |-> slug, routeUrl |-> routeUrl, htmlPath |-> slug \o ".html"]

PageLists ==
    { <<>>,
      <<GenPage("home", "/")>>,
      <<GenPage("about", "/about")>>,
      <<GenPage("home", "/"), GenPage("about", "/about")>> }

BaseUrls == { "/static", "" }

NoCall == [made |-> FALSE, pages |-> <<>>, baseUrl |-> "", before |-> <<>>, err |-> ""]

\* The rewrite array of the first hosting section, <<>> when there is none
RewritesOf(m) ==
    IF m.exists /\ m.hosting # "none" /\ m.sites # <<>> /\ m.sites[1].hasRewrites
    THEN m.sites[1].rewrites ELSE <<>>

(***************************************************************************)
(* Island scanner.  A file on disk is [lines, usages, imports, options]:   *)
(* lines is content.split('\n'); usages are the component paths the        *)
(* <Island component=...> pattern matches, in order; imports the           *)
(* specifiers the import pattern matches, in order; options what page      *)
(* discovery parses out of the file.                                       *)
(***************************************************************************)
Quotes == { "'", "\"" }

Whitespace == { " ", "\t", "\r" }

\* String.prototype.trim
RECURSIVE Trim(_)
Trim(s) ==
    IF s = "" THEN s
    ELSE IF SubSeq(s, 1, 1) \in Whitespace THEN Trim(SubSeq(s, 2, Len(s)))
    ELSE IF SubSeq(s, Len(s), Len(s)) \in Whitespace THEN Trim(SubSeq(s, 1, Len(s) - 1))
    ELSE s

\* island-scanner.ts hasIslandDirective: /^['"]use island['"];?$/ on a line
MatchesDirective(line) ==
    LET marker == "use island"
        close == Len(marker) + 2
    IN /\ Len(line) \in { close, close + 1 }
       /\ SubSeq(line, 1, 1) \in Quotes
       /\ SubSeq(line, 2, close - 1) = marker
       /\ SubSeq(line, close, close) \in Quotes
       /\ Len(line) = close + 1 => SubSeq(line, close + 1, close + 1) = ";"

\* island-scanner.ts hasIslandDirective; an unreadable file gives false
HasIslandDirective(filePath, fs) ==
    /\ filePath \in DOMAIN fs
    /\ MatchesDirective(Trim(fs[filePath].lines[1]))

Extensions == <<".tsx", ".ts", ".jsx", ".js">>

\* the first path of `candidates` that is a file, "" (null) when none is
FirstExisting(candidates, fs) ==
    CHOOSE r \in
        { IF \E i \in 1..Len(c) : c[i] \in DOMAIN fs
          THEN c[CHOOSE i \in 1..Len(c) :
                      /\ c[i] \in DOMAIN fs
                      /\ \A j \in 1..(i - 1) : c[j] \notin DOMAIN fs]
          ELSE "" : c \in { candidates } } : TRUE

\* island-scanner.ts resolveComponentPath; "" stands for null
ResolveComponentPath(componentPath, srcDir, fs) ==
    LET basePath == PathJoin(srcDir, componentPath) IN
    FirstExisting([i \in 1..Len(Extensions) |-> basePath \o Extensions[i]]
                  \o [i \in 1..Len(Extensions) |-> PathJoin(basePath, "index" \o Extensions[i])],
                  fs)

\* island-scanner.ts getComponentName
GetComponentName(componentPath) ==
    LET segs == Split(componentPath, "/")
        last == segs[Len(segs)]
    IN IF last = "" THEN componentPath ELSE last

\* a slip in extractIslandUsages: the pattern without its global flag, only the first
\* usage of a file is found
ExtractIslandUsages_FirstOnly(filePath, fs) ==
    IF filePath \in DOMAIN fs /\ fs[filePath].usages # <<>>
    THEN <<fs[filePath].usages[1]>> ELSE <<>>

\* island-scanner.ts extractIslandUsages; an unreadable file gives []
ExtractIslandUsages(filePath, fs) ==
    IF filePath \in DOMAIN fs THEN fs[filePath].usages ELSE <<>>

\* island-scanner.ts extractImports; an unreadable file gives []
ExtractImports(filePath, fs) ==
    IF filePath \in DOMAIN fs THEN fs[filePath].imports ELSE <<>>

\* a slip in resolveImportPath: the test for a package import is missing, every import
\* is resolved against the importing file's directory
ResolveImportPath_PackagesToo(importPath, fromFile, srcDir, fs) ==
    LET resolvedPath == IF StartsWith(importPath, "/")
                        THEN PathResolve(srcDir, importPath)
                        ELSE PathResolve(PathDirname(fromFile), importPath)
    IN FirstExisting(<<resolvedPath>>
                     \o [i \in 1..Len(Extensions) |-> resolvedPath \o Extensions[i]]
                     \o [i \in 1..Len(Extensions) |->
                            PathJoin(resolvedPath, "index" \o Extensions[i])],
                     fs)

\* island-scanner.ts resolveImportPath; "" stands for null
ResolveImportPath(importPath, fromFile, srcDir, fs) ==
    IF ~StartsWith(importPath, ".") /\ ~StartsWith(importPath, "/") THEN ""
    ELSE
    LET resolvedPath == IF StartsWith(importPath, ".")
                        THEN PathResolve(PathDirname(fromFile), importPath)
                        ELSE PathResolve(srcDir, importPath)
    IN FirstExisting(<<resolvedPath>>
                     \o [i \in 1..Len(Extensions) |-> resolvedPath \o Extensions[i]]
                     \o [i \in 1..Len(Extensions) |->
                            PathJoin(resolvedPath, "index" \o Extensions[i])],
                     fs)

\* Set.prototype.add for each element of xs, on a Set kept as its insertion order
SetAdd(found, x) ==
    IF \E j \in 1..Len(found) : found[j] = x THEN found ELSE Append(found, x)

AddAll(found, xs) ==
    LET F[i \in 0..Len(xs)] == IF i = 0 THEN found ELSE SetAdd(F[i - 1], xs[i])
    IN F[Len(xs)]

\* scanForIslands: the local imports of currentFile that are pushed on the queue
ImportsToPush(currentFile, seen, srcDir, fs) ==
    LET imports == ExtractImports(currentFile, fs)
        resolvedAt(i) == ResolveImportPath(imports[i], currentFile, srcDir, fs)
    IN SubSeqAt([i \in 1..Len(imports) |-> resolvedAt(i)],
                { i \in 1..Len(imports) : resolvedAt(i) # "" /\ resolvedAt(i) \notin seen })

\* a slip in the traversal: the visited check is missing
TraverseStep_NoVisitedCheck(st, srcDir, fs) ==
    LET currentFile == Head(st.queue) IN
    [ queue |-> Tail(st.queue) \o ImportsToPush(currentFile, {}, srcDir, fs),
      visited |-> st.visited \cup {currentFile},
      found |-> AddAll(st.found, ExtractIslandUsages(currentFile, fs)),
      reads |-> [st.reads EXCEPT ![currentFile] = @ + 1] ]

\* scanForIslands: one iteration of the while loop, on st = [queue, visited, found, reads]
TraverseStep(st, srcDir, fs) ==
    LET currentFile == Head(st.queue) IN
    IF currentFile \in st.visited THEN [st EXCEPT !.queue = Tail(st.queue)]
    ELSE
    [ queue |-> Tail(st.queue)
                \o ImportsToPush(currentFile, st.visited \cup {currentFile}, srcDir, fs),
      visited |-> st.visited \cup {currentFile},
      found |-> AddAll(st.found, ExtractIslandUsages(currentFile, fs)),
      reads |-> [st.reads EXCEPT ![currentFile] = @ + 1] ]

\* a slip in the validation: the directive is not checked
IsValidIsland_NoDirective(componentPath, srcDir, fs) ==
    ResolveComponentPath(componentPath, srcDir, fs) # ""

\* scanForIslands: whether a referenced path survives resolution and validation
IsValidIsland(componentPath, srcDir, fs) ==
    /\ ResolveComponentPath(componentPath, srcDir, fs) # ""
    /\ HasIslandDirective(ResolveComponentPath(componentPath, srcDir, fs), fs)

\* scanForIslands: one iteration of the for loop over foundComponentPaths
ValidateOne(list, componentPath, srcDir, fs) ==
    IF ~IsValidIsland(componentPath, srcDir, fs) THEN list
    ELSE IF \E j \in 1..Len(list) : list[j].importPath = componentPath THEN list
    ELSE Append(list, [ name |-> GetComponentName(componentPath),
                        filePath |-> ResolveComponentPath(componentPath, srcDir, fs),
                        importPath |-> componentPath ])

\* scanForIslands: the for loop over foundComponentPaths
ValidateIslands(found, srcDir, fs) ==
    LET F[i \in 0..Len(found)] ==
            IF i = 0 THEN <<>> ELSE ValidateOne(F[i - 1], found[i], srcDir, fs)
    IN F[Len(found)]

\* the traversal run to its end
RECURSIVE TraverseAll(_, _, _)
TraverseAll(st, srcDir, fs) ==
    IF st.queue = <<>> THEN st ELSE TraverseAll(TraverseStep(st, srcDir, fs), srcDir, fs)

NoReads(fs) == [f \in DOMAIN fs |-> 0]

\* island-scanner.ts scanForIslands
ScanForIslands(entryFile, srcDir, fs) ==
    ValidateIslands(
        TraverseAll([queue |-> <<entryFile>>, visited |-> {}, found |-> <<>>,
                     reads |-> NoReads(fs)], srcDir, fs).found,
        srcDir, fs)

\* island-scanner.ts generateHydrationScript: the entry module's import declarations
\* and the keys of its islandComponents registry (shorthand properties, so each
\* key is the name of an import binding)
GenerateHydrationEntry(islandList) ==
    [ imports |-> [i \in 1..Len(islandList) |->
                      [binding |-> islandList[i].name, from |-> islandList[i].filePath]],
      registry |-> [i \in 1..Len(islandList) |-> islandList[i].name] ]

\* markup: its text around the <img> elements, and the <img> elements in order
Html(text, imgs) == [text |-> text, imgs |-> imgs]

\* a file of the output directory; every content has this one shape
Artifact(kind, text) ==
    [ kind |-> kind, body |-> Html(text, <<>>), head |-> "", stylesheet |-> "",
      ssrRoute |-> "", loaderSrc |-> "", preload |-> "", lang |-> "" ]

NoDoc == Artifact("none", "")

\* generateStaticPage: its local variables before any stage has run
NoLocals ==
    [ bodyHtml |-> Html("", <<>>), headHtml |-> "", optimizedBodyHtml |-> Html("", <<>>),
      imagePreloadTags |-> "",
      cssPath |-> "", hydratePath |-> "", finalHtml |-> NoDoc ]

NoHooks == [fired |-> 0, started |-> 0]

NoFailure == [stage |-> "", input |-> 0, page |-> 0, message |-> ""]

NoOptions == [has |-> FALSE, slug |-> "", routeUrl |-> "", hasHead |-> FALSE]

IdleRun ==
    /\ options = [pages |-> <<>>, config |-> <<>>, hosting |-> FALSE, verbose |-> FALSE]
    /\ dirs = <<>>
    /\ isBuild = FALSE
    /\ hasRun = FALSE
    /\ pc = "idle"
    /\ inputIdx = 0
    /\ discovered = <<>>
    /\ pageIdx = 0
    /\ locals = NoLocals
    /\ generatedPages = <<>>
    /\ allPages = <<>>
    /\ outDir = <<>>
    /\ failure = NoFailure
    /\ log = <<>>
    /\ hookCalls = NoHooks

NoRoutes == [loaded |-> FALSE, routes |-> <<>>]

NoRequest == [url |-> "", hasUrl |-> FALSE]

NoResponse ==
    [ ended |-> 0, nexted |-> 0, threw |-> FALSE, statusCode |-> 200, contentType |-> "",
      marker |-> "", body |-> NoDoc ]

IdleImg ==
    /\ inputHtml = <<>>
    /\ imageOptions = <<>>
    /\ images = <<>>
    /\ uniqueUrls = <<>>
    /\ imgPc = "idle"
    /\ batchStart = 0
    /\ inFlight = {}
    /\ settled = <<>>
    /\ downloadCache = <<>>
    /\ imgIdx = 0
    /\ optimizedImages = <<>>
    /\ replacements = <<>>
    /\ imagesDir = <<>>
    /\ returned = [html |-> [text |-> "", imgs |-> <<>>], images |-> <<>>]
    /\ attempts = <<>>
    /\ fileWrites = <<>>

IdleDev ==
    /\ cachedRoutes = NoRoutes
    /\ request = NoRequest
    /\ response = NoResponse
    /\ devCalls = 0

NoBundleCall ==
    [ kind |-> "", slug |-> "", componentPath |-> "", islands |-> <<>>, ok |-> TRUE,
      cssEmitted |-> FALSE, chunks |-> 0, n |-> 0 ]

NoBundleResult == [err |-> "", path |-> ""]

IdleBundle ==
    /\ bundleCall = NoBundleCall
    /\ bundlePc = "idle"
    /\ scratch = <<>>
    /\ bundleResult = NoBundleResult
    /\ unlinked = {}

NoDocument == [html |-> NoDoc, islands |-> 0, hasObserver |-> FALSE, hasIdleCallback |-> FALSE]

IdleLoader ==
    /\ document = NoDocument
    /\ loaderPc = "idle"
    /\ loaded = FALSE
    /\ listeners = {}
    /\ observer = "none"
    /\ fallback = "none"
    /\ scriptTags = <<>>
    /\ triggers = <<>>

IdleWeb == IdleBundle /\ IdleLoader

IdleAux == IdleImg /\ IdleDev /\ IdleWeb

IdleHost ==
    /\ manifest = [exists |-> FALSE, hosting |-> "none", sites |-> <<>>]
    /\ hostCalls = 0
    /\ hostLast = NoCall

IdleCfg ==
    /\ userConfig = <<>>
    /\ resolved = <<>>
    /\ cfgPc = "idle"

NoScript == [imports |-> <<>>, registry |-> <<>>]

IdleScan ==
    /\ files = <<>>
    /\ scanPc = "idle"
    /\ queue = <<>>
    /\ visited = {}
    /\ foundComponentPaths = <<>>
    /\ islands = <<>>
    /\ hydrateScript = NoScript
    /\ reads = <<>>

InitHost ==
    /\ manifest \in InitManifests
    /\ hostCalls = 0
    /\ hostLast = NoCall
    /\ IdleCfg
    /\ IdleScan
    /\ IdleRun
    /\ IdleAux

\* One configure(pages, baseUrl) call, on whatever the manifest holds now
ConfigureCall(pages, baseUrl) ==
    /\ hostCalls < MaxCalls
    /\ LET r == Configure(manifest, pages, baseUrl, hostCalls + 1) IN
       /\ manifest' = r.manifest
       /\ hostLast' = [made |-> TRUE, pages |-> pages, baseUrl |-> baseUrl,
                       before |-> RewritesOf(manifest), err |-> r.err]
    /\ hostCalls' = hostCalls + 1
    /\ UNCHANGED <<auxVars, hookCalls, cfgVars, scanVars, runVars>>

NextHost == \E pages \in PageLists, baseUrl \in BaseUrls : ConfigureCall(pages, baseUrl)

SpecHost == InitHost /\ [][NextHost]_vars

(***************************************************************************)
(* Config resolver.  A JavaScript value is a tagged record: undefined, a   *)
(* primitive (strings, numbers and booleans by their text), an array of    *)
(* primitives, or a plain object (a function from its own keys to values). *)
(***************************************************************************)
Undef == [t |-> "undefined"]

Prim(x) == [t |-> "primitive", p |-> x]

Arr(xs) == [t |-> "array", a |-> xs]

Obj(fields) == [t |-> "object", o |-> fields]

\* config.ts deepMerge: typeof v === "object" && v !== null && !Array.isArray(v)
IsPlainObject(v) == v.t = "object"

\* config.ts DEFAULT_CONFIG
DEFAULT_CONFIG ==
    [ outDir |-> Prim("dist/static"),
      baseUrl |-> Prim("/static"),
      srcDir |-> Prim("src"),
      vite |-> Obj([plugins |-> Arr(<<>>)]),
      images |-> Obj([ enabled |-> Prim("true"),
                       formats |-> Arr(<<"webp">>),
                       quality |-> Prim("80"),
                       generateSrcset |-> Prim("true"),
                       srcsetMultipliers |-> Arr(<<"1", "2">>),
                       lcpImageCount |-> Prim("4") ]),
      css |-> Obj([minify |-> Prim("lightningcss"), globalCssPath |-> Prim("src/index.css")]),
      js |-> Obj([ minify |-> Prim("terser"),
                   target |-> Prim("es2020"),
                   terserOptions |-> Obj([ dropConsole |-> Prim("true"),
                                           dropDebugger |-> Prim("true"),
                                           passes |-> Prim("2") ]) ]),
      html |-> Obj([headTags |-> Prim(""), bodyTags |-> Prim(""), lang |-> Prim("en")]),
      logLevel |-> Prim("info") ]

\* the object spread { ...a, ...b }: own keys of both, b's value where b has the key
Spread(a, b) ==
    [k \in (DOMAIN a) \cup (DOMAIN b) |-> IF k \in DOMAIN b THEN b[k] ELSE a[k]]

\* a slip in deepMerge: a nested object of the user replaces the default's wholesale
DeepMerge_Shallow(target, source) ==
    [k \in (DOMAIN target) \cup { j \in DOMAIN source : source[j] # Undef } |->
        IF k \notin DOMAIN source \/ source[k] = Undef THEN target[k] ELSE source[k]]

\* config.ts deepMerge: result = {...target}; for each key of source: skip an
\* undefined value; spread one level when both values are plain objects; otherwise
\* the source value replaces the target's.
DeepMerge(target, source) ==
    [k \in (DOMAIN target) \cup { j \in DOMAIN source : source[j] # Undef } |->
        IF k \notin DOMAIN source \/ source[k] = Undef THEN target[k]
        ELSE IF /\ IsPlainObject(source[k])
                /\ k \in DOMAIN target
                /\ IsPlainObject(target[k])
             THEN Obj(Spread(target[k].o, source[k].o))
             ELSE source[k]]

\* config.ts resolveConfig
ResolveConfig(user) == DeepMerge(DEFAULT_CONFIG, user)

(***************************************************************************)
(* SpecCfg: resolveConfig applied to a user configuration.  A user         *)
(* configuration holds any subset of the keys below, each with one of the  *)
(* values listed for it.                                                   *)
(***************************************************************************)
UserKeys == { "outDir", "vite", "images", "js", "html", "logLevel" }

UserValues(k) ==
    CASE k = "outDir" -> { Undef, Prim("out") }
      [] k = "vite" -> { Obj([plugins |-> Arr(<<"myPlugin">>)]), Obj(<<>>) }
      [] k = "images" ->
            { Undef,
              Obj([quality |-> Prim("90")]),
              Obj([formats |-> Arr(<<"avif">>)]),
              Obj([quality |-> Undef]),
              Obj([srcsetMultipliers |-> Arr(<<"3">>), lcpImageCount |-> Prim("1")]) }
      [] k = "js" ->
            { Obj([minify |-> Prim("esbuild")]),
              Obj([terserOptions |-> Obj([passes |-> Prim("3")])]),
              Obj([terserOptions |-> Obj([ dropConsole |-> Prim("false"),
                                           dropDebugger |-> Prim("false"),
                                           passes |-> Prim("1") ])]),
              Obj([target |-> Undef]) }
      [] k = "html" -> { Obj([lang |-> Prim("fr")]) }
      [] k = "logLevel" -> { Prim("debug"), Arr(<<"warn">>) }

RECURSIVE ConfigsOver(_)
ConfigsOver(keys) ==
    IF keys = {} THEN { <<>> }
    ELSE LET k == CHOOSE x \in keys : TRUE
             rest == ConfigsOver(keys \ {k})
         IN rest \cup { (k :> v) @@ f : <<f, v>> \in rest \X UserValues(k) }

UserConfigs == ConfigsOver(UserKeys)

InitCfg ==
    /\ userConfig \in UserConfigs
    /\ resolved = <<>>
    /\ cfgPc = "input"
    /\ IdleHost
    /\ IdleScan
    /\ IdleRun
    /\ IdleAux

\* gen-static.ts generateStaticWithInfo: const config = resolveConfig(userConfig)
Resolve ==
    /\ cfgPc = "input"
    /\ resolved' = ResolveConfig(userConfig)
    /\ cfgPc' = "resolved"
    /\ UNCHANGED <<auxVars, hookCalls, userConfig, hostVars, scanVars, runVars>>

NextCfg == Resolve

SpecCfg == InitCfg /\ [][NextCfg]_vars

(***************************************************************************)
(* Claims about the config resolver (checked under SpecCfg).               *)
(***************************************************************************)
\* value v holds a defined value for every field DEFAULT_CONFIG's value d declares,
\* at every nesting level
RECURSIVE Populated(_, _)
Populated(d, v) ==
    /\ v # Undef
    /\ d.t = "object" =>
          /\ v.t = "object"
          /\ \A f \in DOMAIN d.o : f \in DOMAIN v.o /\ Populated(d.o[f], v.o[f])

\* C6: every field of the resolved configuration, at every nesting level, is defined.
C6_EveryFieldDefined ==
    cfgPc = "resolved" =>
        \A k \in DOMAIN DEFAULT_CONFIG :
            k \in DOMAIN resolved /\ Populated(DEFAULT_CONFIG[k], resolved[k])

\* what the merge rule gives for key k when the user's value u counts as present
MergedAsPresent(k, u) ==
    IF u.t = "object" /\ k \in DOMAIN DEFAULT_CONFIG /\ DEFAULT_CONFIG[k].t = "object"
    THEN /\ resolved[k].t = "object"
         /\ DOMAIN resolved[k].o = (DOMAIN DEFAULT_CONFIG[k].o) \cup (DOMAIN u.o)
         /\ \A f \in DOMAIN resolved[k].o :
               resolved[k].o[f] = IF f \in DOMAIN u.o THEN u.o[f] ELSE DEFAULT_CONFIG[k].o[f]
    ELSE resolved[k] = u

\* C7 as stated: every key present in the user config is merged (field by field
\* for two plain objects, replaced wholesale otherwise); absent keys keep the default.
C7_MergePerPresentKey ==
    cfgPc = "resolved" =>
        \A k \in DOMAIN DEFAULT_CONFIG :
            IF k \in DOMAIN userConfig
            THEN k \in DOMAIN resolved /\ MergedAsPresent(k, userConfig[k])
            ELSE resolved[k] = DEFAULT_CONFIG[k]

\* C7 amended: as stated, except that a top-level key whose user value is undefined
\* is treated as absent and keeps its default.
C7_MergePerDefinedKey ==
    cfgPc = "resolved" =>
        /\ DOMAIN resolved = DOMAIN DEFAULT_CONFIG
        /\ \A k \in DOMAIN DEFAULT_CONFIG :
              IF k \in DOMAIN userConfig /\ userConfig[k] # Undef
              THEN MergedAsPresent(k, userConfig[k])
              ELSE resolved[k] = DEFAULT_CONFIG[k]

\* C7 witness: a partial images group was merged field by field, its array replaced
\* wholesale, an explicitly undefined key kept its default and an absent key too
C7_Witness ==
    /\ cfgPc = "resolved"
    /\ "images" \in DOMAIN userConfig
    /\ userConfig["images"] = Obj([formats |-> Arr(<<"avif">>)])
    /\ resolved["images"].o["formats"] = Arr(<<"avif">>)
    /\ resolved["images"].o["quality"] = Prim("80")
    /\ "outDir" \in DOMAIN userConfig /\ userConfig["outDir"] = Undef
    /\ "logLevel" \in DOMAIN userConfig /\ resolved["logLevel"] = Arr(<<"warn">>)
    /\ "js" \notin DOMAIN userConfig

(***************************************************************************)
(* SpecScan: scanForIslands from a page, then generateHydrationScript, over *)
(* a family of source trees under /p/src.                                  *)
(***************************************************************************)
SrcDir == "/p/src"

ScanEntry == "/p/src/pages/Home.tsx"

SourceFile(lines, usages, imports) ==
    [lines |-> lines, usages |-> usages, imports |-> imports, options |-> NoOptions]

\* first lines a component file may have
FirstLines ==
    { "'use island'", "\"use island\";", "  'use island';\r", "'use island\"",
      "use island", "// 'use island'", "", "'use client'" }

HomeUsages ==
    { <<>>,
      <<"components/Counter">>,
      <<"components/Missing">>,
      <<"components/Counter", "components/Plain">>,
      <<"components/Plain", "components/Counter", "components/Counter">> }

HomeImports ==
    { <<>>,
      <<"../components/Layout">>,
      <<"react", "../components/Layout", "./Home">>,
      <<"/components/Layout">> }

LayoutUsages == { <<>>, <<"components/Counter">>, <<"widgets">>, <<"widgets/Counter">> }

LayoutImports == { <<>>, <<"../pages/Home">>, <<"./Layout", "react-dom">> }

PlainFirstLines == { "export default function Plain() {}", "\t\"use island'" }

SourceTree(homeUsages, homeImports, layoutUsages, layoutImports, counterLine, plainLine) ==
    ("/p/src/pages/Home.tsx" :> SourceFile(<<"import React from 'react'">>, homeUsages, homeImports))
    @@ ("/p/src/components/Layout.tsx" :>
            SourceFile(<<"export function Layout() {}">>, layoutUsages, layoutImports))
    @@ ("/p/src/components/Counter.tsx" :>
            SourceFile(<<counterLine, "'use island'", "export default function Counter() {}">>,
                       <<>>, <<"react">>))
    @@ ("/p/src/components/Plain.tsx" :> SourceFile(<<plainLine>>, <<>>, <<>>))
    @@ ("/p/src/widgets/index.tsx" :> SourceFile(<<"\"use island\"">>, <<>>, <<>>))
    @@ ("/p/src/widgets/Counter.tsx" :>
            SourceFile(<<"'use island';", "export default function Counter() {}">>, <<>>, <<>>))
    @@ ("/p/src/pages/react.tsx" :> SourceFile(<<"'use island'">>, <<"widgets">>, <<>>))

SourceTrees ==
    { SourceTree(hu, hi, lu, li, cl, pl) :
        hu \in HomeUsages, hi \in HomeImports, lu \in LayoutUsages, li \in LayoutImports,
        cl \in FirstLines, pl \in PlainFirstLines }

InitScan ==
    /\ files \in SourceTrees
    /\ scanPc = "traverse"
    /\ queue = <<ScanEntry>>
    /\ visited = {}
    /\ foundComponentPaths = <<>>
    /\ islands = <<>>
    /\ hydrateScript = NoScript
    /\ reads = NoReads(files)
    /\ IdleHost
    /\ IdleCfg
    /\ IdleRun
    /\ IdleAux

\* scanForIslands: one iteration of the while loop
ScanTraverse ==
    /\ scanPc = "traverse"
    /\ queue # <<>>
    /\ LET st == TraverseStep([queue |-> queue, visited |-> visited,
                               found |-> foundComponentPaths, reads |-> reads],
                              SrcDir, files)
       IN /\ queue' = st.queue
          /\ visited' = st.visited
          /\ foundComponentPaths' = st.found
          /\ reads' = st.reads
    /\ UNCHANGED <<auxVars, hookCalls, files, scanPc, islands, hydrateScript, hostVars, cfgVars, runVars>>

\* scanForIslands: the loop has ended; resolve and validate each referenced path
ScanValidate ==
    /\ scanPc = "traverse"
    /\ queue = <<>>
    /\ islands' = ValidateIslands(foundComponentPaths, SrcDir, files)
    /\ scanPc' = "emit"
    /\ UNCHANGED <<auxVars, hookCalls, files, queue, visited, foundComponentPaths, hydrateScript, reads,
                   hostVars, cfgVars, runVars>>

\* generateHydrationScript(islands)
ScanEmit ==
    /\ scanPc = "emit"
    /\ hydrateScript' = GenerateHydrationEntry(islands)
    /\ scanPc' = "done"
    /\ UNCHANGED <<auxVars, hookCalls, files, queue, visited, foundComponentPaths, islands, reads,
                   hostVars, cfgVars, runVars>>

NextScan == ScanTraverse \/ ScanValidate \/ ScanEmit

SpecScan == InitScan /\ [][NextScan]_vars

\* the import graphs of the termination and ordering checks: every shape of Home's and
\* Layout's imports (self-import, cycle, package imports) and usage lists with several
\* and with repeated entries, the component files fixed
LiveTrees ==
    { SourceTree(hu, hi, lu, li, "'use island'", "export default function Plain() {}") :
        hu \in { <<>>, <<"components/Counter", "widgets">>,
                 <<"components/Plain", "components/Counter", "components/Counter">> },
        hi \in HomeImports, lu \in LayoutUsages, li \in LayoutImports }

InitScanLive ==
    /\ files \in LiveTrees
    /\ scanPc = "traverse"
    /\ queue = <<ScanEntry>>
    /\ visited = {}
    /\ foundComponentPaths = <<>>
    /\ islands = <<>>
    /\ hydrateScript = NoScript
    /\ reads = NoReads(files)
    /\ IdleHost
    /\ IdleCfg
    /\ IdleRun
    /\ IdleAux

\* the scan is sequential code that runs on until it returns: a step that can be taken
\* is taken
SpecScanLive == InitScanLive /\ [][NextScan]_vars /\ WF_vars(NextScan)

(***************************************************************************)
(* Claims about the island scanner (checked under SpecScan).               *)
(***************************************************************************)
\* the directive marker literals: 'use island' or "use island", optionally with ";"
ExactMarkers == { "'use island'", "\"use island\"", "'use island';", "\"use island\";" }

\* the files the Island usages reachable from the page refer to
ReferencedFiles ==
    { ResolveComponentPath(foundComponentPaths[i], SrcDir, files) :
        i \in 1..Len(foundComponentPaths) } \ { "" }

\* C3: a referenced component file whose first line (surrounding whitespace and the
\* line terminator aside) is not exactly the directive marker is neither in the
\* validated island list nor among the imports or the registry of the generated
\* hydration entry.
C3_NoMarkerNeverIncluded ==
    scanPc = "done" =>
        \A f \in ReferencedFiles :
            Trim(files[f].lines[1]) \notin ExactMarkers =>
                /\ \A i \in 1..Len(islands) : islands[i].filePath # f
                /\ \A i \in 1..Len(hydrateScript.imports) : hydrateScript.imports[i].from # f

(***************************************************************************)
(* Claims about the hosting configurator (checked under SpecHost).         *)
(***************************************************************************)
HostNow == RewritesOf(manifest)

HostOk == hostLast.made /\ hostLast.err = ""

\* positions of the rules the last call inserted, and of the rules it retained
HostMine == { i \in 1..Len(HostNow) : HostNow[i].by = hostCalls }

HostRetained == { i \in 1..Len(HostNow) : HostNow[i].by # hostCalls }

HostRetainedCatchAlls == { i \in HostRetained : HostNow[i].source \in {"**", "/**"} }

SetMin(S) == CHOOSE x \in S : \A y \in S : x <= y

Range(f) == { f[i] : i \in DOMAIN f }

\* C4: a successful configure(pages, baseUrl) inserts exactly one rule
\* {source: routeUrl, destination: baseUrl + "/" + slug + ".html"} per page, in page
\* order and as one contiguous block, immediately before the first retained rule
\* whose source is "**" or "/**", or at the front of the array when there is none;
\* that catch-all rule is a rule of the array as it was before the call.
C4_InsertedBlockBeforeCatchAll ==
    HostOk =>
        LET n == Len(hostLast.pages) IN
        /\ Cardinality(HostMine) = n
        /\ \E p \in 0..Len(HostNow) :
              /\ HostMine = (p + 1)..(p + n)
              /\ \A k \in 1..n :
                    /\ HostNow[p + k].source = hostLast.pages[k].routeUrl
                    /\ HostNow[p + k].destination =
                          hostLast.baseUrl \o "/" \o hostLast.pages[k].slug \o ".html"
              /\ n > 0 =>
                    IF HostRetainedCatchAlls = {} THEN p = 0
                    ELSE SetMin(HostRetainedCatchAlls) = p + n + 1
        /\ \A i \in HostRetainedCatchAlls : HostNow[i] \in Range(hostLast.before)

\* C4 witness: two pages were inserted after a retained rule and before a catch-all
C4_Witness ==
    /\ HostOk
    /\ Len(hostLast.pages) = 2
    /\ HostRetainedCatchAlls # {}
    /\ SetMin(HostMine) > 1
    /\ SetMin(HostRetainedCatchAlls) = SetMin(HostMine) + 2

\* C5 as stated: every hand-written rule, whatever its source and destination,
\* survives each configure call unmodified and in its relative order.
C5_HandWrittenNeverRemoved ==
    HostOk =>
        SubSeqAt(HostNow, { i \in 1..Len(HostNow) : HostNow[i].by = 0 }) =
            SubSeqAt(hostLast.before,
                     { i \in 1..Len(hostLast.before) : hostLast.before[i].by = 0 })

\* the destination pattern that marks a rule as removable under baseUrl
OutsidePatternOfLastCall(r) ==
    \/ r.destination = ""
    \/ ~StartsWith(r.destination, hostLast.baseUrl \o "/")
    \/ ~EndsWith(r.destination, ".html")

\* C5 amended: a configure(pages, baseUrl) call retains, unmodified and in their
\* relative order, exactly the rules whose destination does not both start with
\* baseUrl + "/" and end with ".html" (hand-written or not); a failed call leaves
\* the rewrite array as it was.
C5_RulesOutsidePatternKept ==
    /\ HostOk =>
          SubSeqAt(HostNow, HostRetained) =
              SubSeqAt(hostLast.before,
                       { i \in 1..Len(hostLast.before) :
                            OutsidePatternOfLastCall(hostLast.before[i]) })
    /\ (hostLast.made /\ hostLast.err # "") => HostNow = hostLast.before

\* C5 witness: a call removed a rule and retained a hand-written one
C5_Witness ==
    /\ HostOk
    /\ Cardinality(HostRetained) < Len(hostLast.before)
    /\ \E i \in HostRetained : HostNow[i].by = 0 /\ HostNow[i].destination # ""

(***************************************************************************)
(* The image optimizer (browser.ts).  Markup is Html(text, imgs); an <img> *)
(* element is a record of its attributes, 0 or "" for an absent one.  The  *)
(* network and sharp are external: a download either yields the image or   *)
(* is rejected, and sharp may be missing.                                  *)
(***************************************************************************)

\* an <img ...> element as written in the markup
ImgElement(src, width, height, alt) ==
    [src |-> src, width |-> width, height |-> height, srcset |-> "", loading |-> "", alt |-> alt]

\* s with every occurrence of the entity replaced by the character
RECURSIVE ReplaceAll(_, _, _)
ReplaceAll(s, entity, char) ==
    LET at == { i \in 1..(Len(s) - Len(entity) + 1) : SubSeq(s, i, i + Len(entity) - 1) = entity }
    IN  IF at = {} THEN s
        ELSE LET first == SetMin(at)
             IN  SubSeq(s, 1, first - 1) \o char
                     \o ReplaceAll(SubSeq(s, first + Len(entity), Len(s)), entity, char)

\* browser.ts decodeHtmlEntities
DecodeHtmlEntities(url) ==
    ReplaceAll(ReplaceAll(ReplaceAll(ReplaceAll(ReplaceAll(url,
        "&amp;", "&"), "&lt;", "<"), "&gt;", ">"), "&quot;", "\""), "&#39;", "'")

\* browser.ts extractImages: one <img> element; <<>> when it is skipped
ImageInfo(element) ==
    LET url == DecodeHtmlEntities(element.src)
    IN  IF element.src = "" THEN <<>>
        ELSE IF StartsWith(url, "data:") \/ EndsWith(url, ".svg") THEN <<>>
        ELSE << [ url |-> url, width |-> element.width, height |-> element.height,
                  isExternal |-> StartsWith(url, "http://") \/ StartsWith(url, "https://"),
                  element |-> element, originalEncodedUrl |-> element.src ] >>

\* browser.ts extractImages
RECURSIVE ExtractImages(_)
ExtractImages(markup) ==
    IF markup.imgs = <<>> THEN <<>>
    ELSE ImageInfo(Head(markup.imgs)) \o ExtractImages(Html(markup.text, Tail(markup.imgs)))

\* the first 8 hex digits of the md5 digest, kept symbolic: equal inputs, equal digests
Md5Hex8(url) == "md5(" \o url \o ")"

\* the position of the last c in s, 0 when there is none
RECURSIVE LastIndexOf(_, _)
LastIndexOf(s, c) ==
    IF s = "" THEN 0
    ELSE IF SubSeq(s, Len(s), Len(s)) = c THEN Len(s)
    ELSE LastIndexOf(SubSeq(s, 1, Len(s) - 1), c)

\* the position of the first c in s, Len(s) + 1 when there is none
RECURSIVE IndexOf(_, _)
IndexOf(s, c) ==
    IF s = "" THEN 1
    ELSE IF SubSeq(s, 1, 1) = c THEN 1
    ELSE 1 + IndexOf(SubSeq(s, 2, Len(s)), c)

\* new URL(url).pathname of an http(s) URL
UrlPathname(url) ==
    LET afterScheme == SubSeq(url, IndexOf(url, ":") + 3, Len(url))
        cut == SetMin({IndexOf(afterScheme, "?"), IndexOf(afterScheme, "#")})
        hostAndPath == SubSeq(afterScheme, 1, cut - 1)
        slash == IndexOf(hostAndPath, "/")
    IN  IF slash > Len(hostAndPath) THEN "/" ELSE SubSeq(hostAndPath, slash, Len(hostAndPath))

\* path.basename(p, path.extname(p))
BasenameNoExt(p) ==
    LET base == SubSeq(p, LastIndexOf(p, "/") + 1, Len(p))
        dot == LastIndexOf(base, ".")
    IN  IF dot > 1 THEN SubSeq(base, 1, dot - 1) ELSE base

FilenameChars ==
    { "a","b","c","d","e","f","g","h","i","j","k","l","m","n","o","p","q","r","s","t","u",
      "v","w","x","y","z","A","B","C","D","E","F","G","H","I","J","K","L","M","N","O","P",
      "Q","R","S","T","U","V","W","X","Y","Z","0","1","2","3","4","5","6","7","8","9",
      "-","_" }

\* .replace(/[^a-zA-Z0-9-_]/g, '_')
RECURSIVE Sanitize(_)
Sanitize(s) ==
    IF s = "" THEN ""
    ELSE (IF SubSeq(s, 1, 1) \in FilenameChars THEN SubSeq(s, 1, 1) ELSE "_")
         \o Sanitize(SubSeq(s, 2, Len(s)))

\* a slip in generateFilename: the width is left out of the name
GenerateFilename_NoWidth(url, width, format) ==
    Sanitize(BasenameNoExt(UrlPathname(url))) \o "_" \o Md5Hex8(url) \o "." \o format

\* browser.ts generateFilename
GenerateFilename(url, width, format) ==
    LET baseName == Sanitize(BasenameNoExt(UrlPathname(url)))
        sizeSuffix == IF width # 0 THEN "_" \o ToString(width) \o "w" ELSE ""
    IN  baseName \o "_" \o Md5Hex8(url) \o sizeSuffix \o "." \o format

\* Math.round(a / b) for positive integers
RoundDiv(a, b) == (2 * a + b) \div (2 * b)

\* browser.ts optimizeImage; imageBuffer carries what sharp's metadata() reports
OptimizeImage(imageBuffer, targetWidth, targetHeight, format) ==
    LET metadata == imageBuffer.metadata
        origWidth == IF metadata.width # 0 THEN metadata.width ELSE 800
        origHeight == IF metadata.height # 0 THEN metadata.height ELSE 600
        width0 == IF targetWidth # 0 THEN targetWidth ELSE origWidth
        height0 == IF targetHeight # 0 THEN targetHeight ELSE origHeight
        width1 == IF targetWidth = 0 /\ targetHeight # 0
                  THEN RoundDiv(origWidth * targetHeight, origHeight) ELSE width0
        height1 == IF targetWidth # 0 /\ targetHeight = 0
                   THEN RoundDiv(origHeight * targetWidth, origWidth) ELSE height0
        finalWidth == IF width1 > origWidth THEN origWidth ELSE width1
        finalHeight == IF width1 > origWidth THEN origHeight ELSE height1
        nativeFormat == IF metadata.format # "" THEN metadata.format ELSE "jpeg"
        outputFormat == IF format = "original" THEN nativeFormat ELSE format
        encoding == IF format \in {"webp", "avif"} THEN format ELSE metadata.format
    IN  [ buffer |-> [ url |-> imageBuffer.url, width |-> finalWidth, height |-> finalHeight,
                       encoding |-> encoding ],
          width |-> finalWidth, height |-> finalHeight, format |-> outputFormat ]

\* an option of the call, or its default from the destructuring
OptionOr(o, key, default) == IF key \in DOMAIN o THEN o[key] ELSE default

DefaultConcurrency == 5

\* browser.ts optimizeImages: the options with their defaults
ImageOptions(o) ==
    [ outputDir |-> o.outputDir, baseUrl |-> o.baseUrl,
      formats |-> OptionOr(o, "formats", <<"webp">>),
      generateSrcset |-> OptionOr(o, "generateSrcset", FALSE),
      srcsetMultipliers |-> OptionOr(o, "srcsetMultipliers", <<1, 2>>),
      concurrency |-> OptionOr(o, "concurrency", DefaultConcurrency) ]

\* what a download of the URL yields: the bytes, and what sharp's metadata() reports of them
NativeImage(url) ==
    IF EndsWith(UrlPathname(url), ".png")
    THEN [width |-> 1000, height |-> 500, format |-> "png"]
    ELSE [width |-> 0, height |-> 0, format |-> ""]

\* browser.ts downloadImage: the buffer of a fulfilled download
DownloadImage(url) == [url |-> url, metadata |-> NativeImage(url)]

\* a slip in optimizeImages: the URLs are not de-duplicated
RECURSIVE UniqueUrls_NoDedup(_)
UniqueUrls_NoDedup(imageList) ==
    IF imageList = <<>> THEN <<>>
    ELSE IF Head(imageList).isExternal
         THEN <<Head(imageList).url>> \o UniqueUrls_NoDedup(Tail(imageList))
         ELSE UniqueUrls_NoDedup(Tail(imageList))

\* browser.ts optimizeImages: [...new Set(images.filter(isExternal).map(url))]
RECURSIVE UniqueUrls(_)
UniqueUrls(imageList) ==
    IF imageList = <<>> THEN <<>>
    ELSE LET before == UniqueUrls(SubSeq(imageList, 1, Len(imageList) - 1))
             last == imageList[Len(imageList)]
         IN  IF last.isExternal THEN SetAdd(before, last.url) ELSE before

\* uniqueUrls.slice(i, i + concurrency), i counted from 0
Batch(urlList, i, concurrency) ==
    SubSeqAt(urlList, { k \in 1..Len(urlList) : k > i /\ k <= i + concurrency })

\* a slip in the download loop: Promise.all in place of Promise.allSettled, one
\* rejection discarding the whole batch
SettledCache_AllOrNothing(cache, batch, results) ==
    IF \E i \in 1..Len(batch) : ~results[batch[i]] THEN cache
    ELSE [u \in DOMAIN cache \cup { batch[i] : i \in 1..Len(batch) } |-> DownloadImage(u)]

\* browser.ts optimizeImages: the cache after Promise.allSettled: each fulfilled result
\* of the batch is entered, each rejected one only warned about
SettledCache(cache, batch, results) ==
    LET fulfilled == { batch[i] : i \in { j \in 1..Len(batch) : results[batch[j]] } }
    IN  [u \in DOMAIN cache \cup fulfilled |->
            IF u \in fulfilled THEN DownloadImage(u) ELSE cache[u]]

\* fs.writeFileSync into the images directory, and the history of writes
WriteImage(st, filename, buffer) ==
    [st EXCEPT !.dir = (filename :> buffer) @@ st.dir, !.writes = Append(st.writes, filename)]

\* a slip in the srcset loop: every srcset file is written, the primary's name included
SrcsetWrite_Always(st, srcsetFilename, filename, buffer) ==
    WriteImage(st, srcsetFilename, buffer)

\* browser.ts optimizeImages, the srcset loop: "Only save if different from primary"
SrcsetWrite(st, srcsetFilename, filename, buffer) ==
    IF srcsetFilename # filename THEN WriteImage(st, srcsetFilename, buffer) ELSE st

\* browser.ts optimizeImages: formats[0] || 'webp'
PrimaryFormat(o) ==
    IF o.formats # <<>> /\ o.formats[1] # "" THEN o.formats[1] ELSE "webp"

\* browser.ts optimizeImages: one turn of the srcset loop
SrcsetStep(st, img, multiplier, imageBuffer, filename, o) ==
    LET srcsetWidth == img.width * multiplier
        srcsetOptimized == OptimizeImage(imageBuffer, srcsetWidth, 0, PrimaryFormat(o))
        srcsetFilename == GenerateFilename(img.url, srcsetWidth, srcsetOptimized.format)
        srcsetUrl == o.baseUrl \o "/images/" \o srcsetFilename
        saved == SrcsetWrite(st, srcsetFilename, filename, srcsetOptimized.buffer)
    IN  [saved EXCEPT !.parts = Append(st.parts, srcsetUrl \o " " \o ToString(multiplier) \o "x")]

\* browser.ts optimizeImages: the srcset loop over the first k multipliers
RECURSIVE SrcsetLoop(_, _, _, _, _, _)
SrcsetLoop(st, img, k, imageBuffer, filename, o) ==
    IF k = 0 THEN st
    ELSE SrcsetStep(SrcsetLoop(st, img, k - 1, imageBuffer, filename, o), img,
                    o.srcsetMultipliers[k], imageBuffer, filename, o)

\* srcsetParts.join(', ')
RECURSIVE JoinParts(_)
JoinParts(parts) ==
    IF parts = <<>> THEN ""
    ELSE IF Len(parts) = 1 THEN parts[1]
    ELSE parts[1] \o ", " \o JoinParts(Tail(parts))

\* Map.set: an existing key keeps its position
MapSet(entries, key, value) ==
    IF \E i \in 1..Len(entries) : entries[i][1] = key
    THEN [i \in 1..Len(entries) |-> IF entries[i][1] = key THEN <<key, value>> ELSE entries[i]]
    ELSE Append(entries, <<key, value>>)

\* browser.ts optimizeImages, the end of the loop body: the image is pushed on
\* optimizedImages and the replacement of its element is entered
RecordImage(st, img, o, optimized, filename, withSrcset) ==
    LET localUrl == o.baseUrl \o "/images/" \o filename
        srcset == JoinParts(withSrcset.parts)
        pushed == Append(st.optimizedImages,
            [ originalUrl |-> img.url, localPath |-> o.outputDir \o "/images/" \o filename,
              localUrl |-> localUrl, width |-> optimized.width, height |-> optimized.height,
              format |-> optimized.format, srcset |-> srcset ])
        e == img.element
        newElement ==
            [ src |-> localUrl,
              width |-> IF e.width # 0 THEN optimized.width ELSE 0,
              height |-> IF e.height # 0 THEN optimized.height ELSE 0,
              srcset |-> IF srcset # "" /\ e.srcset = "" THEN srcset ELSE e.srcset,
              loading |-> IF e.loading = "" /\ Len(pushed) > 4 THEN "lazy" ELSE e.loading,
              alt |-> e.alt ]
    IN  [withSrcset EXCEPT !.optimizedImages = pushed,
                           !.replacements = MapSet(st.replacements, e, newElement)]

\* browser.ts optimizeImages, the middle of the loop body: the primary file is written,
\* then the srcset variants
SaveImage(st, img, o, imageBuffer, optimized, filename) ==
    LET primary == WriteImage([st EXCEPT !.parts = <<>>], filename, optimized.buffer)
    IN  RecordImage(st, img, o, optimized, filename,
            IF o.generateSrcset /\ img.width # 0
            THEN SrcsetLoop(primary, img, Len(o.srcsetMultipliers), imageBuffer, filename, o)
            ELSE primary)

\* browser.ts optimizeImages, the loop body once the image is optimized: its file name
NameImage(st, img, o, imageBuffer, optimized) ==
    SaveImage(st, img, o, imageBuffer, optimized,
              GenerateFilename(img.url, img.width, optimized.format))

\* browser.ts optimizeImages: the body of the processing loop for one image;
\* st is [optimizedImages, replacements, dir, writes, parts]
ProcessImage(st, img, cache, o) ==
    IF ~img.isExternal THEN st
    ELSE IF img.url \notin DOMAIN cache THEN st
    ELSE NameImage(st, img, o, cache[img.url],
                   OptimizeImage(cache[img.url], img.width, img.height, PrimaryFormat(o)))

\* optimizedHtml.split(original).join(replacement), one replacement after the other
RECURSIVE ApplyReplacements(_, _)
ApplyReplacements(markup, entries) ==
    IF entries = <<>> THEN markup
    ELSE LET original == entries[1][1]
             replacement == entries[1][2]
         IN  ApplyReplacements(
                 Html(markup.text, [i \in 1..Len(markup.imgs) |->
                     IF markup.imgs[i] = original THEN replacement ELSE markup.imgs[i]]),
                 Tail(entries))

\* browser.ts optimizeImages: the processing loop over the first k images
RECURSIVE ProcessLoop(_, _, _, _, _)
ProcessLoop(st, imageList, k, cache, o) ==
    IF k = 0 THEN st
    ELSE ProcessImage(ProcessLoop(st, imageList, k - 1, cache, o), imageList[k], cache, o)

\* browser.ts optimizeImages: the cache once every batch has settled
DownloadAll(urlList, reachable) ==
    [u \in { urlList[i] : i \in 1..Len(urlList) } \cap reachable |-> DownloadImage(u)]

\* browser.ts optimizeImages: the value returned once the loop has run
Optimized(markup, st) ==
    [ html |-> ApplyReplacements(markup, st.replacements),
      images |-> st.optimizedImages, dir |-> st.dir, writes |-> st.writes ]

\* browser.ts optimizeImages from the extracted images on
OptimizeExtracted(markup, o, imageList, sharp, reachable, dir) ==
    IF ~sharp \/ imageList = <<>>
    THEN [html |-> markup, images |-> <<>>, dir |-> dir, writes |-> <<>>]
    ELSE Optimized(markup,
             ProcessLoop([optimizedImages |-> <<>>, replacements |-> <<>>, dir |-> dir,
                          writes |-> <<>>, parts |-> <<>>],
                         imageList, Len(imageList),
                         DownloadAll(UniqueUrls(imageList), reachable), o))

\* browser.ts optimizeImages as one call: sharp is installed or not, reachable is the set
\* of URLs whose download is fulfilled, dir is the images directory before the call
OptimizeImages(markup, callOptions, sharp, reachable, dir) ==
    OptimizeExtracted(markup, ImageOptions(callOptions), ExtractImages(markup), sharp,
                      reachable, dir)

\* browser.ts generateImagePreloads: one <link> per image
PreloadTag(image) ==
    LET type == IF image.format = "webp" THEN "image/webp"
                ELSE IF image.format = "avif" THEN "image/avif" ELSE "image/jpeg"
    IN  "<link rel=\"preload\" as=\"image\" href=\"" \o image.localUrl \o "\" type=\""
            \o type \o "\" fetchpriority=\"high\">"

\* browser.ts generateImagePreloads
RECURSIVE GenerateImagePreloads(_, _)
GenerateImagePreloads(imageList, maxImages) ==
    IF imageList = <<>> \/ maxImages <= 0 THEN ""
    ELSE IF Len(imageList) = 1 \/ maxImages = 1 THEN PreloadTag(imageList[1])
    ELSE PreloadTag(imageList[1]) \o "\n    "
             \o GenerateImagePreloads(Tail(imageList), maxImages - 1)

(***************************************************************************)
(* SpecImg: one call of optimizeImages, download by download.              *)
(***************************************************************************)

MaxImages == 3

PngUrl == "https://cdn.io/img/hero one.png"

JpgUrl == "https://cdn.io/photo.jpg?w=1&h=2"

\* the <img> elements a page may carry
ImgElements ==
    { ImgElement(PngUrl, 400, 0, "hero"),
      ImgElement(PngUrl, 400, 0, "hero again"),
      ImgElement("https://cdn.io/photo.jpg?w=1&amp;h=2", 0, 300, "photo"),
      ImgElement("/logo.png", 32, 32, "logo"),
      ImgElement("https://cdn.io/icon.svg", 16, 16, "icon") }

\* every markup of at most n <img> elements
RECURSIVE ImgSeqs(_)
ImgSeqs(n) ==
    IF n = 0 THEN { <<>> }
    ELSE ImgSeqs(n - 1) \cup
         { Append(s, e) : s \in { t \in ImgSeqs(n - 1) : Len(t) = n - 1 }, e \in ImgElements }

ImgMarkups == { Html("<main>", s) : s \in ImgSeqs(MaxImages) }

\* the options of the calls: defaults, and each option set
ImgOptionSets ==
    LET base == [outputDir |-> "/p/dist/static", baseUrl |-> "/static"]
    IN  { base,
          base @@ [concurrency |-> 1, generateSrcset |-> TRUE],
          base @@ [concurrency |-> 2, formats |-> <<"original">>],
          base @@ [concurrency |-> 2, generateSrcset |-> TRUE, srcsetMultipliers |-> <<1, 2>>,
                   formats |-> <<>>],
          base @@ [concurrency |-> 0] }

NoReturn == [html |-> Html("", <<>>), images |-> <<>>]

InitImg ==
    /\ IdleHost
    /\ IdleCfg
    /\ IdleScan
    /\ IdleRun
    /\ IdleDev
    /\ IdleWeb
    /\ inputHtml \in ImgMarkups
    /\ imageOptions \in ImgOptionSets
    /\ images = <<>>
    /\ uniqueUrls = <<>>
    /\ imgPc = "start"
    /\ batchStart = 0
    /\ inFlight = {}
    /\ settled = <<>>
    /\ downloadCache = <<>>
    /\ imgIdx = 0
    /\ optimizedImages = <<>>
    /\ replacements = <<>>
    /\ imagesDir = <<>>
    /\ returned = NoReturn
    /\ attempts = <<>>
    /\ fileWrites = <<>>

imgRest == <<hostVars, cfgVars, scanVars, runVars, hookCalls, devVars, webVars>>

\* optimizeImages up to the download loop: sharp missing or no image returns at once
ImgStart(sharp) ==
    /\ imgPc = "start"
    /\ IF ~sharp
       THEN /\ returned' = [html |-> inputHtml, images |-> <<>>]
            /\ imgPc' = "done"
            /\ UNCHANGED <<images, uniqueUrls>>
       ELSE LET imageList == ExtractImages(inputHtml) IN
            /\ images' = imageList
            /\ IF imageList = <<>>
               THEN /\ returned' = [html |-> inputHtml, images |-> <<>>]
                    /\ imgPc' = "done"
                    /\ UNCHANGED uniqueUrls
               ELSE /\ uniqueUrls' = UniqueUrls(imageList)
                    /\ imgPc' = "download"
                    /\ UNCHANGED returned
    /\ UNCHANGED <<imgRest, inputHtml, imageOptions, batchStart, inFlight, settled,
                   downloadCache, imgIdx, optimizedImages, replacements, imagesDir,
                   attempts, fileWrites>>

\* the download loop's head: the next batch's downloads all start
ImgStartBatch ==
    /\ imgPc = "download"
    /\ batchStart < Len(uniqueUrls)
    /\ LET batch == Batch(uniqueUrls, batchStart, ImageOptions(imageOptions).concurrency)
           urls == { batch[i] : i \in 1..Len(batch) }
       IN  /\ inFlight' = urls
           /\ attempts' = [u \in DOMAIN attempts \cup urls |->
                             (IF u \in DOMAIN attempts THEN attempts[u] ELSE 0)
                             + Cardinality({ i \in 1..Len(batch) : batch[i] = u })]
    /\ imgPc' = "await"
    /\ UNCHANGED <<imgRest, inputHtml, imageOptions, images, uniqueUrls, batchStart, settled,
                   downloadCache, imgIdx,
                   optimizedImages, replacements, imagesDir, returned, fileWrites>>

\* one download of the batch settles: fulfilled or rejected
ImgSettle(url, fulfilled) ==
    /\ imgPc = "await"
    /\ url \in inFlight
    /\ inFlight' = inFlight \ {url}
    /\ settled' = (url :> fulfilled) @@ settled
    /\ UNCHANGED <<imgRest, inputHtml, imageOptions, images, uniqueUrls, imgPc, batchStart, downloadCache,
                   imgIdx, optimizedImages, replacements, imagesDir, returned, attempts,
                   fileWrites>>

\* Promise.allSettled resolves: the fulfilled results enter the cache
ImgEndBatch ==
    /\ imgPc = "await"
    /\ inFlight = {}
    /\ downloadCache' =
           SettledCache(downloadCache,
                        Batch(uniqueUrls, batchStart, ImageOptions(imageOptions).concurrency),
                        settled)
    /\ batchStart' = batchStart + ImageOptions(imageOptions).concurrency
    /\ imgPc' = "download"
    /\ UNCHANGED <<imgRest, inputHtml, imageOptions, images, uniqueUrls, inFlight, settled,
                   imgIdx, optimizedImages,
                   replacements, imagesDir, returned, attempts, fileWrites>>

\* the download loop ends
ImgDownloaded ==
    /\ imgPc = "download"
    /\ batchStart >= Len(uniqueUrls)
    /\ imgPc' = "process"
    /\ imgIdx' = 1
    /\ UNCHANGED <<imgRest, inputHtml, imageOptions, images, uniqueUrls, batchStart, inFlight, settled,
                   downloadCache, optimizedImages, replacements, imagesDir, returned,
                   attempts, fileWrites>>

\* one turn of the processing loop
ImgProcess ==
    /\ imgPc = "process"
    /\ imgIdx <= Len(images)
    /\ LET st == ProcessImage([optimizedImages |-> optimizedImages,
                               replacements |-> replacements, dir |-> imagesDir,
                               writes |-> fileWrites, parts |-> <<>>],
                              images[imgIdx], downloadCache, ImageOptions(imageOptions))
       IN  /\ optimizedImages' = st.optimizedImages
           /\ replacements' = st.replacements
           /\ imagesDir' = st.dir
           /\ fileWrites' = st.writes
    /\ imgIdx' = imgIdx + 1
    /\ UNCHANGED <<imgRest, inputHtml, imageOptions, images, uniqueUrls, imgPc, batchStart, inFlight, settled,
                   downloadCache, returned, attempts>>

\* the replacements are applied and the call returns
ImgReturn ==
    /\ imgPc = "process"
    /\ imgIdx > Len(images)
    /\ returned' = [html |-> ApplyReplacements(inputHtml, replacements),
                    images |-> optimizedImages]
    /\ imgPc' = "done"
    /\ UNCHANGED <<imgRest, inputHtml, imageOptions, images, uniqueUrls, batchStart, inFlight, settled,
                   downloadCache, imgIdx, optimizedImages, replacements, imagesDir,
                   attempts, fileWrites>>

NextImg ==
    \/ \E sharp \in BOOLEAN : ImgStart(sharp)
    \/ ImgStartBatch
    \/ \E url \in inFlight, fulfilled \in BOOLEAN : ImgSettle(url, fulfilled)
    \/ ImgEndBatch
    \/ ImgDownloaded
    \/ ImgProcess
    \/ ImgReturn

SpecImg == InitImg /\ [][NextImg]_vars

(***************************************************************************)
(* The build orchestrator: the plugin's writeBundle hook runs             *)
(* generateStaticPages, which calls generateStaticWithInfo for each        *)
(* configured input; that one discovers the input's pages and runs              *)
(* generateStaticPage on each, stage by stage; the hosting configurator    *)
(* comes last.  The SSR renderer and the bundler are external: each call   *)
(* either succeeds or throws.  null is "".                                 *)
(***************************************************************************)
Cwd == "/p"

\* String.prototype.includes
Includes(s, sub) ==
    \E i \in 1..(Len(s) - Len(sub) + 1) : SubSeq(s, i, i + Len(sub) - 1) = sub

\* JSON.stringify of a string none of whose characters needs escaping
JsonString(s) == "\"" \o s \o "\""

\* JavaScript truthiness of a config value
Truthy(v) ==
    /\ v.t # "undefined"
    /\ ~(v.t = "primitive" /\ v.p \in { "false", "", "0", "null" })

\* ---- the regular expressions of page discovery, on the text of a file
\* the class \s
RegexSpace == { " ", "\n", "\t", "\r" }

WordLetters == "abcdefghijklmnopqrstuvwxyzABCDEFGHIJKLMNOPQRSTUVWXYZ0123456789_"

\* the class \w
WordChars == { SubSeq(WordLetters, i, i) : i \in 1..Len(WordLetters) }

\* the class ["'`]; no text here holds a backquote
QuoteChars == { "\"", "'" }

\* the literal lit stands at position i of t
At(t, i, lit) == i >= 1 /\ i + Len(lit) - 1 <= Len(t) /\ SubSeq(t, i, i + Len(lit) - 1) = lit

\* a greedy class*: the first position from i on whose character is outside S
SkipChars(t, i, S) ==
    LET stops == { j \in i..Len(t) : SubSeq(t, j, j) \notin S } IN
    IF stops = {} THEN Len(t) + 1 ELSE SetMin(stops)

\* a greedy negated class*: the first position from i on whose character is in S
SkipUntil(t, i, S) ==
    LET stops == { j \in i..Len(t) : SubSeq(t, j, j) \in S } IN
    IF stops = {} THEN Len(t) + 1 ELSE SetMin(stops)

\* /export\s+const\s+ssgOptions\s*(?::\s*\w+)?\s*=\s*\{/ tried at position p: the position
\* after the brace, 0 when there is no match at p
OptionsOpenAt(t, p) ==
    IF ~At(t, p, "export") THEN 0 ELSE
    LET a == SkipChars(t, p + 6, RegexSpace) IN
    IF a = p + 6 \/ ~At(t, a, "const") THEN 0 ELSE
    LET b == SkipChars(t, a + 5, RegexSpace) IN
    IF b = a + 5 \/ ~At(t, b, "ssgOptions") THEN 0 ELSE
    LET c == SkipChars(t, b + 10, RegexSpace)
        w == SkipChars(t, c + 1, RegexSpace)
        e == SkipChars(t, w, WordChars)
        d == IF At(t, c, ":") /\ e > w THEN e ELSE c
        f == SkipChars(t, d, RegexSpace)
        g == SkipChars(t, f + 1, RegexSpace)
    IN IF At(t, f, "=") /\ At(t, g, "{") THEN g + 1 ELSE 0

\* the positions from `from` on where the closing "\n};" stands
OptionsCloses(t, from) == { k \in from..Len(t) : At(t, k, "\n};") }

\* content.match(/export ... = \{([\s\S]*?)\n\};/): [found, text], text being group 1
SsgOptionsMatch(t) ==
    LET starts == { p \in 1..Len(t) :
                      OptionsOpenAt(t, p) # 0 /\ OptionsCloses(t, OptionsOpenAt(t, p)) # {} }
    IN IF starts = {} THEN [found |-> FALSE, text |-> ""]
       ELSE LET open == OptionsOpenAt(t, SetMin(starts)) IN
            [found |-> TRUE, text |-> SubSeq(t, open, SetMin(OptionsCloses(t, open)) - 1)]

\* /name\s*:\s*["'`]([^"'`]+)["'`]/ tried at position q: [found, text]
QuotedFieldAt(t, name, q) ==
    LET a == SkipChars(t, q + Len(name), RegexSpace)
        b == SkipChars(t, a + 1, RegexSpace)
        e == SkipUntil(t, b + 1, QuoteChars)
    IN IF /\ At(t, q, name) /\ At(t, a, ":")
          /\ b <= Len(t) /\ SubSeq(t, b, b) \in QuoteChars
          /\ e > b + 1 /\ e <= Len(t)
       THEN [found |-> TRUE, text |-> SubSeq(t, b + 1, e - 1)]
       ELSE [found |-> FALSE, text |-> ""]

\* optionsContent.match(/name\s*:\s*["'`]([^"'`]+)["'`]/): the leftmost match
QuotedField(t, name) ==
    LET starts == { q \in 1..Len(t) : QuotedFieldAt(t, name, q).found } IN
    IF starts = {} THEN [found |-> FALSE, text |-> ""]
    ELSE QuotedFieldAt(t, name, SetMin(starts))

\* /Head\s*:\s*(?:\(\)|[^,}])/ or /Head\s*\(\s*\)/ tried at position q.  After the colon
\* \s* may give a whitespace character back to [^,}], so the character that follows the
\* colon decides.
HeadAt(t, q) ==
    /\ At(t, q, "Head")
    /\ LET a == SkipChars(t, q + 4, RegexSpace) IN
       \/ At(t, a, ":") /\ a + 1 <= Len(t) /\ SubSeq(t, a + 1, a + 1) \notin { ",", "}" }
       \/ At(t, a, "(") /\ At(t, SkipChars(t, a + 1, RegexSpace), ")")

\* page-discovery.ts extractSsgOptionsFromFile from the match of the export on: the
\* fields read in the captured block
SsgOptionsFields(ssgOptionsMatch) ==
    LET slugMatch == QuotedField(ssgOptionsMatch.text, "slug")
        routeUrlMatch == QuotedField(ssgOptionsMatch.text, "routeUrl")
    IN IF ~ssgOptionsMatch.found \/ ~slugMatch.found
       THEN [has |-> FALSE, slug |-> "", routeUrl |-> "", hasHead |-> FALSE]
       ELSE [has |-> TRUE, slug |-> slugMatch.text,
             routeUrl |-> IF routeUrlMatch.found THEN routeUrlMatch.text ELSE "",
             hasHead |-> \E q \in 1..Len(ssgOptionsMatch.text) : HeadAt(ssgOptionsMatch.text, q)]

\* page-discovery.ts extractSsgOptionsFromFile on the text of a file that could be read
ParseSsgOptions(content) == SsgOptionsFields(SsgOptionsMatch(content))

\* dev-middleware.ts: /export\s+const\s+ssgOptions\s*[=:][^{]*\{/ tried at position p: the
\* position after the brace, 0 when there is no match at p
DevOptionsOpenAt(t, p) ==
    IF ~At(t, p, "export") THEN 0 ELSE
    LET a == SkipChars(t, p + 6, RegexSpace) IN
    IF a = p + 6 \/ ~At(t, a, "const") THEN 0 ELSE
    LET b == SkipChars(t, a + 5, RegexSpace) IN
    IF b = a + 5 \/ ~At(t, b, "ssgOptions") THEN 0 ELSE
    LET c == SkipChars(t, b + 10, RegexSpace)
        g == SkipUntil(t, c + 1, { "{" })
    IN IF (At(t, c, "=") \/ At(t, c, ":")) /\ g <= Len(t) THEN g + 1 ELSE 0

\* dev-middleware.ts: content.match(/export ... \{([^}]+)\}/s): [found, text]
DevOptionsMatch(t) ==
    LET Closed(open) == SkipUntil(t, open, { "}" })
        starts == { p \in 1..Len(t) :
                      /\ DevOptionsOpenAt(t, p) # 0
                      /\ Closed(DevOptionsOpenAt(t, p)) > DevOptionsOpenAt(t, p)
                      /\ Closed(DevOptionsOpenAt(t, p)) <= Len(t) }
    IN IF starts = {} THEN [found |-> FALSE, text |-> ""]
       ELSE LET open == DevOptionsOpenAt(t, SetMin(starts)) IN
            [found |-> TRUE, text |-> SubSeq(t, open, Closed(open) - 1)]

\* a StaticRoute; null is NoRoute
StaticRoute(slug, routeUrl) ==
    [has |-> TRUE, slug |-> slug, routeUrl |-> routeUrl, htmlPath |-> slug \o ".html"]

NoRoute == [has |-> FALSE, slug |-> "", routeUrl |-> "", htmlPath |-> ""]

\* dev-middleware.ts extractSsgOptionsFromFile from the match of the export on
StaticRouteFields(ssgOptionsMatch) ==
    LET slugMatch == QuotedField(ssgOptionsMatch.text, "slug")
        routeUrlMatch == QuotedField(ssgOptionsMatch.text, "routeUrl")
    IN IF ~ssgOptionsMatch.found \/ ~slugMatch.found THEN NoRoute
       ELSE StaticRoute(slugMatch.text,
                        IF routeUrlMatch.found THEN routeUrlMatch.text ELSE "/")

\* dev-middleware.ts extractSsgOptionsFromFile on the text of a file that could be read
ParseStaticRoute(content) == StaticRouteFields(DevOptionsMatch(content))

\* page-discovery.ts extractSsgOptionsFromFile; NoOptions stands for null.  The file's
\* `options` field is what the regular expressions find in its text: has (the ssgOptions
\* export is there), slug ("" when the block has none), routeUrl ("" when it has none).
ExtractSsgOptionsFromFile(filePath, fs) ==
    IF filePath \notin DOMAIN fs THEN NoOptions
    ELSE IF ~fs[filePath].options.has THEN NoOptions
    ELSE IF fs[filePath].options.slug = "" THEN NoOptions
    ELSE [fs[filePath].options EXCEPT !.routeUrl = IF @ = "" THEN "/" ELSE @]

PageConfig(componentPath, ssgOptions) ==
    [ componentPath |-> componentPath, slug |-> ssgOptions.slug,
      routeUrl |-> ssgOptions.routeUrl, hasHead |-> ssgOptions.hasHead ]

\* a slip in discoverPages: a single file without the options block is taken as a page
DiscoverPages_NoThrow(input, fs, ds) ==
    LET absoluteInput == IF StartsWith(input, "/") THEN input ELSE PathJoin(Cwd, input) IN
    IF absoluteInput \in DOMAIN fs
    THEN [err |-> "", pages |-> <<PageConfig(absoluteInput, fs[absoluteInput].options)>>]
    ELSE IF absoluteInput \in DOMAIN ds
    THEN LET names == ds[absoluteInput]
             paths == [i \in 1..Len(names) |-> PathJoin(absoluteInput, names[i])]
         IN [err |-> "",
             pages |-> [i \in 1..Len(paths) |->
                           PageConfig(paths[i], ExtractSsgOptionsFromFile(paths[i], fs))]]
    ELSE [err |-> "ENOENT", pages |-> <<>>]

\* page-discovery.ts discoverPages: the outcome [err, pages].  A path that is neither in
\* fs nor in ds does not exist: statSync throws.
DiscoverPages(input, fs, ds) ==
    LET absoluteInput == IF StartsWith(input, "/") THEN input ELSE PathJoin(Cwd, input) IN
    IF absoluteInput \in DOMAIN fs
    THEN LET ssgOptions == ExtractSsgOptionsFromFile(absoluteInput, fs) IN
         IF ~ssgOptions.has
         THEN [err |-> "does not export 'ssgOptions'", pages |-> <<>>]
         ELSE [err |-> "", pages |-> <<PageConfig(absoluteInput, ssgOptions)>>]
    ELSE IF absoluteInput \in DOMAIN ds
    THEN LET names == ds[absoluteInput]
             sources == SubSeqAt(names, { i \in 1..Len(names) :
                                            EndsWith(names[i], ".tsx") \/ EndsWith(names[i], ".jsx") })
             paths == [i \in 1..Len(sources) |-> PathJoin(absoluteInput, sources[i])]
             kept == SubSeqAt(paths, { i \in 1..Len(paths) :
                                         ExtractSsgOptionsFromFile(paths[i], fs).has })
         IN [err |-> "",
             pages |-> [i \in 1..Len(kept) |->
                           PageConfig(kept[i], ExtractSsgOptionsFromFile(kept[i], fs))]]
    ELSE [err |-> "ENOENT", pages |-> <<>>]

\* generator.ts generateStaticPages: the SsgBuildConfig handed to generateStaticWithInfo
SsgConfigOf(opts) ==
    Spread(opts.config,
           [logLevel |-> IF opts.verbose THEN Prim("debug")
                         ELSE IF "logLevel" \in DOMAIN opts.config
                                 /\ opts.config["logLevel"] # Undef
                              THEN opts.config["logLevel"]
                              ELSE Prim("info")])

\* ssgPlugin writeBundle: resolvedOptions.config.baseUrl ?? "/static"
HostingBaseUrl(opts) ==
    IF "baseUrl" \in DOMAIN opts.config /\ opts.config["baseUrl"] # Undef
    THEN opts.config["baseUrl"].p
    ELSE "/static"

\* ssr-renderer.ts renderPage: the outcome [err, bodyHtml, headHtml]; the markup is
\* named after the component it was rendered from and carries the <img> elements the
\* component renders
RenderPage(componentPath, renderHead, ok, imgs) ==
    IF ok
    THEN [ err |-> "", bodyHtml |-> Html("<body of " \o componentPath \o ">", imgs),
           headHtml |-> IF renderHead THEN "<head of " \o componentPath \o ">" ELSE "" ]
    ELSE [err |-> "render failed", bodyHtml |-> Html("", <<>>), headHtml |-> ""]

\* the number a configuration text stands for
ParseNumber(text) == CHOOSE n \in 0..100 : ToString(n) = text

\* gen-static.ts generateStaticPage: the options object handed to optimizeImages
ImageCallOptions(config) ==
    [ outputDir |-> PathJoin(Cwd, config["outDir"].p),
      baseUrl |-> config["baseUrl"].p,
      formats |-> config["images"].o["formats"].a,
      generateSrcset |-> Truthy(config["images"].o["generateSrcset"]),
      srcsetMultipliers |->
          [i \in 1..Len(config["images"].o["srcsetMultipliers"].a) |->
              ParseNumber(config["images"].o["srcsetMultipliers"].a[i])] ]

\* fs.writeFileSync of each optimized image, in order, into {outDir}/images
RECURSIVE WriteImages(_, _, _)
WriteImages(dir, names, content) ==
    IF names = <<>> THEN dir
    ELSE WriteImages((("images/" \o Head(names)) :> content) @@ dir, Tail(names), content)

\* gen-static.ts generateStaticPage: the step after the render
StageAfterRender(config) ==
    IF Truthy(config["images"].o["enabled"]) THEN "images" ELSE "css"

\* a slip in generateStaticPage: the hydration build runs for every page
StageAfterCss_Always(islandList) == "hydrate"

\* gen-static.ts generateStaticPage: the step after the CSS build
StageAfterCss(islandList) ==
    IF Len(islandList) > 0 THEN "hydrate" ELSE "html"

\* css-builder.ts buildCssBundle: the outcome [err, cssPath, outDir, entry].  The build
\* emits {slug}.js, and {slug}.css when the page has styles (cssEmitted); then every
\* .js file of the output directory whose name has no "hydrate" in it is deleted.  The
\* entry file is unlinked on every path.
BuildCssBundle(slug, componentPath, config, dir, ok, cssEmitted) ==
    LET entry == "_temp_" \o slug \o "_entry.tsx"
        emitted == IF cssEmitted
                   THEN ((slug \o ".js") :> Artifact("js", componentPath))
                        @@ ((slug \o ".css") :> Artifact("css", componentPath))
                   ELSE ((slug \o ".js") :> Artifact("js", componentPath))
        built == emitted @@ dir
        kept == { f \in DOMAIN built : ~(EndsWith(f, ".js") /\ ~Includes(f, "hydrate")) }
        cssFileName == slug \o ".css"
    IN IF ~ok THEN [err |-> "css build failed", cssPath |-> "", outDir |-> dir, entry |-> entry]
       ELSE [ err |-> "",
              cssPath |-> IF cssFileName \in kept
                          THEN config["baseUrl"].p \o "/" \o cssFileName ELSE "",
              outDir |-> [f \in kept |-> built[f]],
              entry |-> entry ]

\* hydration-builder.ts buildHydrationBundle: the outcome [err, hydratePath, outDir,
\* entry, script]; entry is the file written in the scratch directory ("" when none
\* was), unlinked on every path
BuildHydrationBundle(slug, islandList, config, dir, ok) ==
    IF Len(islandList) = 0
    THEN [err |-> "", hydratePath |-> "", outDir |-> dir, entry |-> "", script |-> NoScript]
    ELSE
    LET entry == "_temp_" \o slug \o "_hydrate.tsx" IN
    IF ~ok
    THEN [ err |-> "hydration build failed", hydratePath |-> "", outDir |-> dir,
           entry |-> entry, script |-> GenerateHydrationEntry(islandList) ]
    ELSE [ err |-> "",
           hydratePath |-> config["baseUrl"].p \o "/" \o slug \o "-hydrate.js",
           outDir |-> ((slug \o "-hydrate.js") :> Artifact("js", entry)) @@ dir,
           entry |-> entry,
           script |-> GenerateHydrationEntry(islandList) ]

\* a slip in generateHtmlTemplate: the loader is emitted whatever hydrateJsPath is
GenerateHtmlTemplate_LoaderAlways(o) ==
    [ kind |-> "html", body |-> o.bodyContent, head |-> o.headContent,
      stylesheet |-> IF o.cssPath # "" THEN o.cssPath ELSE "",
      ssrRoute |-> JsonString(o.routeUrl),
      loaderSrc |-> JsonString(o.hydrateJsPath),
      preload |-> o.imagePreloadTags,
      lang |-> o.config["html"].o["lang"].p ]

\* html-template.ts generateHtmlTemplate: the document, by its parts.  stylesheet is the
\* href of the <link>, ssrRoute the value assigned to window.__SSR_ROUTE__ and loaderSrc
\* the src the inline loader gives the script element; each is "" when the part is absent.
GenerateHtmlTemplate(o) ==
    [ kind |-> "html", body |-> o.bodyContent, head |-> o.headContent,
      stylesheet |-> IF o.cssPath # "" THEN o.cssPath ELSE "",
      ssrRoute |-> IF o.hydrateJsPath # "" THEN JsonString(o.routeUrl) ELSE "",
      loaderSrc |-> IF o.hydrateJsPath # "" THEN JsonString(o.hydrateJsPath) ELSE "",
      preload |-> o.imagePreloadTags,
      lang |-> o.config["html"].o["lang"].p ]

\* a slip in the artifact write: an existing file is kept
WriteFile_KeepExisting(dir, name, content) ==
    IF name \in DOMAIN dir THEN dir ELSE (name :> content) @@ dir

\* fs.writeFileSync
WriteFile(dir, name, content) == (name :> content) @@ dir

\* one entry of the history: a stage of page `page` of input `input` has started
Event(stage, input, page, pageConfig, islandCount, doc) ==
    [ stage |-> stage, input |-> input, page |-> page, slug |-> pageConfig.slug,
      component |-> pageConfig.componentPath, islands |-> islandCount, doc |-> doc ]

NoPage == [componentPath |-> "", slug |-> "", routeUrl |-> "", hasHead |-> FALSE]

Failure(stage, message) ==
    [stage |-> stage, input |-> inputIdx, page |-> pageIdx, message |-> message]

(***************************************************************************)
(* Spec: one build of a project.  The project has a pages directory with        *)
(* MaxPages component files, each of one of the kinds below, a single      *)
(* component file Landing.tsx, and three components.                       *)
(***************************************************************************)
MaxPages == 2

PageFile(ssgOptions, usages, imports) ==
    [ lines |-> <<"import React from 'react'">>, usages |-> usages, imports |-> imports,
      options |-> ssgOptions, imgs |-> <<>> ]

\* a component file that is not a page
Helper == PageFile(NoOptions, <<>>, <<>>)

\* a page without islands; its options block has no routeUrl
HomeStatic ==
    PageFile([has |-> TRUE, slug |-> "home", routeUrl |-> "", hasHead |-> FALSE],
             <<>>, <<"../components/Layout">>)

\* a page with one island
HomeIslands ==
    PageFile([has |-> TRUE, slug |-> "home", routeUrl |-> "/", hasHead |-> TRUE],
             <<"components/Counter">>, <<"../components/Layout">>)

\* the same page rendering one remote image at width 400
HomeHero == [HomeIslands EXCEPT !.imgs = << ImgElement(PngUrl, 400, 0, "hero") >>]

\* a page whose Island usages are all dropped: no directive, no file
AboutDropped ==
    PageFile([has |-> TRUE, slug |-> "about", routeUrl |-> "/about", hasHead |-> FALSE],
             <<"components/Plain", "components/Missing">>, <<>>)

PageKinds == { Helper, HomeStatic, HomeIslands, AboutDropped }

PagesDir == "/p/src/pages"

LandingPath == "/p/src/Landing.tsx"

PageName(i) == "P" \o ToString(i) \o ".tsx"

RunTree(kinds, landing) ==
    [ f \in { PathJoin(PagesDir, PageName(i)) : i \in 1..Len(kinds) }
            \cup { LandingPath, "/p/src/components/Layout.tsx",
                   "/p/src/components/Counter.tsx", "/p/src/components/Plain.tsx" } |->
        IF f = LandingPath THEN landing
        ELSE IF f = "/p/src/components/Layout.tsx"
        THEN SourceFile(<<"export function Layout() {}">>, <<>>, <<"react">>)
        ELSE IF f = "/p/src/components/Counter.tsx"
        THEN SourceFile(<<"'use island';", "export default function Counter() {}">>,
                        <<>>, <<"react">>)
        ELSE IF f = "/p/src/components/Plain.tsx"
        THEN SourceFile(<<"export default function Plain() {}">>, <<>>, <<>>)
        ELSE kinds[CHOOSE i \in 1..Len(kinds) : PathJoin(PagesDir, PageName(i)) = f] ]

RunDirs(kinds) ==
    PagesDir :> (<<"README.md">> \o [i \in 1..Len(kinds) |-> PageName(i)])

RunProjects ==
    { [inputs |-> <<"src/pages">>, kinds |-> ks, landing |-> Helper] :
        ks \in [1..MaxPages -> PageKinds] }
    \cup
    { [inputs |-> <<LandingPath>>, kinds |-> [i \in 1..MaxPages |-> Helper], landing |-> l] :
        l \in { Helper, HomeHero } }
    \cup
    { [inputs |-> <<"src/pages", LandingPath>>, kinds |-> ks, landing |-> l] :
        ks \in [1..MaxPages -> PageKinds], l \in { Helper, HomeHero } }

RunConfigs == { <<>>, "images" :> Obj([enabled |-> Prim("false")]) }

RunManifests ==
    { [exists |-> FALSE, hosting |-> "none", sites |-> <<>>],
      [exists |-> TRUE, hosting |-> "object",
       sites |-> <<Site(<<Rule("/old", "/static/old.html", 0), Rule("**", "/index.html", 0)>>)>>] }

Init ==
    /\ \E p \in RunProjects, c \in RunConfigs, h \in BOOLEAN :
          /\ files = RunTree(p.kinds, p.landing)
          /\ dirs = RunDirs(p.kinds)
          /\ options = [pages |-> p.inputs, config |-> c, hosting |-> h, verbose |-> FALSE]
    /\ isBuild \in BOOLEAN
    /\ hasRun = FALSE
    /\ pc = "idle"
    /\ inputIdx = 0
    /\ discovered = <<>>
    /\ pageIdx = 0
    /\ locals = NoLocals
    /\ generatedPages = <<>>
    /\ allPages = <<>>
    /\ outDir = <<>>
    /\ failure = NoFailure
    /\ log = <<>>
    /\ hookCalls = NoHooks
    /\ IdleAux
    /\ manifest \in RunManifests
    /\ hostCalls = 0
    /\ hostLast = NoCall
    /\ IdleCfg
    /\ scanPc = "idle"
    /\ queue = <<>>
    /\ visited = {}
    /\ foundComponentPaths = <<>>
    /\ islands = <<>>
    /\ hydrateScript = NoScript
    /\ reads = <<>>

scanRest == <<files, scanPc, queue, visited, foundComponentPaths, reads>>

\* a slip in writeBundle: the run-once flag is not looked at
HookRuns_NoFlag(build, ran) == build

\* ssgPlugin writeBundle: the negation of `if (!isBuild || hasRun) return`
HookRuns(build, ran) == build /\ ~ran

\* ssgPlugin writeBundle, up to the call of generateStaticPages
WriteBundle ==
    /\ pc = "idle"
    /\ HookRuns(isBuild, hasRun)
    /\ hasRun' = TRUE
    /\ hookCalls' = [fired |-> hookCalls.fired + 1, started |-> hookCalls.started + 1]
    /\ inputIdx' = 1
    /\ allPages' = <<>>
    /\ pc' = "inputs"
    /\ UNCHANGED <<auxVars, hostVars, cfgVars, scanVars, options, dirs, isBuild, discovered, pageIdx,
                   locals, generatedPages, outDir, failure, log>>

\* generateStaticPages calls generateStaticWithInfo on the next input, which resolves the
\* configuration, discovers the pages and throws when there is none
GenerateStaticWithInfo ==
    /\ pc = "inputs"
    /\ inputIdx <= Len(options.pages)
    /\ \E d \in { DiscoverPages(options.pages[inputIdx], files, dirs) } :
       LET ssgConfig == SsgConfigOf(options)
           message == IF d.err # "" THEN d.err
                      ELSE IF Len(d.pages) = 0 THEN "No pages found to generate" ELSE ""
       IN /\ userConfig' = ssgConfig
          /\ resolved' = ResolveConfig(ssgConfig)
          /\ cfgPc' = "resolved"
          /\ discovered' = d.pages
          /\ generatedPages' = <<>>
          /\ pageIdx' = IF message = "" THEN 1 ELSE 0
          /\ pc' = IF message = "" THEN "scan" ELSE "failed"
          /\ failure' = IF message = "" THEN failure
                        ELSE [stage |-> "discover", input |-> inputIdx, page |-> 0,
                              message |-> message]
    /\ UNCHANGED <<auxVars, hookCalls, hostVars, scanVars, options, dirs, isBuild, hasRun, inputIdx, locals,
                   allPages, outDir, log>>

\* generateStaticPage step 1: scanForIslands
PageScan ==
    /\ pc = "scan"
    /\ LET page == discovered[pageIdx]
           srcDir == PathJoin(Cwd, resolved["srcDir"].p)
           found == ScanForIslands(page.componentPath, srcDir, files)
       IN /\ islands' = found
          /\ log' = Append(log, Event("scan", inputIdx, pageIdx, page, Len(found), NoDoc))
    /\ locals' = NoLocals
    /\ pc' = "render"
    /\ UNCHANGED <<auxVars, hookCalls, hostVars, cfgVars, scanRest, hydrateScript, options, dirs, isBuild, hasRun,
                   inputIdx, discovered, pageIdx, generatedPages, allPages, outDir, failure>>

\* generateStaticPage step 2: renderPage
PageRender ==
    /\ pc = "render"
    /\ \E ok \in BOOLEAN :
          LET page == discovered[pageIdx]
              r == RenderPage(page.componentPath, page.hasHead, ok,
                              files[page.componentPath].imgs)
          IN /\ log' = Append(log, Event("render", inputIdx, pageIdx, page, Len(islands), NoDoc))
             /\ IF r.err = ""
                THEN /\ locals' = [locals EXCEPT !.bodyHtml = r.bodyHtml,
                                                 !.headHtml = r.headHtml,
                                                 !.optimizedBodyHtml = r.bodyHtml,
                                                 !.imagePreloadTags = ""]
                     /\ pc' = StageAfterRender(resolved)
                     /\ UNCHANGED failure
                ELSE /\ pc' = "failed"
                     /\ failure' = Failure("render", r.err)
                     /\ UNCHANGED locals
    /\ UNCHANGED <<auxVars, hookCalls, hostVars, cfgVars, scanVars, options, dirs, isBuild, hasRun, inputIdx,
                   discovered, pageIdx, generatedPages, allPages, outDir>>

\* generateStaticPage step 3: optimizeImages and generateImagePreloads
PageImages ==
    /\ pc = "images"
    /\ \E sharp \in BOOLEAN, reachable \in SUBSET { PngUrl } :
          \E r \in { OptimizeImages(locals.bodyHtml, ImageCallOptions(resolved), sharp,
                                    reachable, <<>>) } :
          LET page == discovered[pageIdx]
          IN /\ log' = Append(log, Event("images", inputIdx, pageIdx, page, Len(islands), NoDoc))
             /\ locals' = [locals EXCEPT
                             !.optimizedBodyHtml = r.html,
                             !.imagePreloadTags =
                                 GenerateImagePreloads(r.images,
                                     ParseNumber(resolved["images"].o["lcpImageCount"].p))]
             /\ outDir' = WriteImages(outDir, r.writes, Artifact("image", page.componentPath))
    /\ pc' = "css"
    /\ UNCHANGED <<auxVars, hookCalls, hostVars, cfgVars, scanVars, options, dirs, isBuild, hasRun, inputIdx,
                   discovered, pageIdx, generatedPages, allPages, failure>>

\* generateStaticPage step 4: buildCssBundle
PageCss ==
    /\ pc = "css"
    /\ \E ok \in BOOLEAN, cssEmitted \in BOOLEAN :
          LET page == discovered[pageIdx]
              r == BuildCssBundle(page.slug, page.componentPath, resolved, outDir,
                                  ok, cssEmitted)
          IN /\ ok \/ cssEmitted
             /\ log' = Append(log, Event("css", inputIdx, pageIdx, page, Len(islands), NoDoc))
             /\ outDir' = r.outDir
             /\ IF r.err = ""
                THEN /\ locals' = [locals EXCEPT !.cssPath = r.cssPath]
                     /\ pc' = StageAfterCss(islands)
                     /\ UNCHANGED failure
                ELSE /\ pc' = "failed"
                     /\ failure' = Failure("css", r.err)
                     /\ UNCHANGED locals
    /\ UNCHANGED <<auxVars, hookCalls, hostVars, cfgVars, scanVars, options, dirs, isBuild, hasRun, inputIdx,
                   discovered, pageIdx, generatedPages, allPages>>

\* generateStaticPage step 5: buildHydrationBundle
PageHydrate ==
    /\ pc = "hydrate"
    /\ \E ok \in BOOLEAN :
          LET page == discovered[pageIdx]
              r == BuildHydrationBundle(page.slug, islands, resolved, outDir, ok)
          IN /\ log' = Append(log, Event("hydrate", inputIdx, pageIdx, page, Len(islands), NoDoc))
             /\ outDir' = r.outDir
             /\ hydrateScript' = r.script
             /\ IF r.err = ""
                THEN /\ locals' = [locals EXCEPT !.hydratePath = r.hydratePath]
                     /\ pc' = "html"
                     /\ UNCHANGED failure
                ELSE /\ pc' = "failed"
                     /\ failure' = Failure("hydrate", r.err)
                     /\ UNCHANGED locals
    /\ UNCHANGED <<auxVars, hookCalls, hostVars, cfgVars, scanRest, islands, options, dirs, isBuild, hasRun,
                   inputIdx, discovered, pageIdx, generatedPages, allPages>>

\* generateStaticPage step 6: generateHtmlTemplate
PageHtml ==
    /\ pc = "html"
    /\ LET page == discovered[pageIdx]
           finalHtml == GenerateHtmlTemplate(
                            [ headContent |-> locals.headHtml,
                              bodyContent |-> locals.optimizedBodyHtml,
                              cssPath |-> locals.cssPath,
                              hydrateJsPath |-> locals.hydratePath,
                              routeUrl |-> page.routeUrl,
                              imagePreloadTags |-> locals.imagePreloadTags,
                              config |-> resolved ])
       IN /\ locals' = [locals EXCEPT !.finalHtml = finalHtml]
          /\ log' = Append(log, Event("html", inputIdx, pageIdx, page, Len(islands), NoDoc))
    /\ pc' = "write"
    /\ UNCHANGED <<auxVars, hookCalls, hostVars, cfgVars, scanVars, options, dirs, isBuild, hasRun, inputIdx,
                   discovered, pageIdx, generatedPages, allPages, outDir, failure>>

\* generateStaticPage writes {slug}.html and returns; generateStaticWithInfo records the
\* page and goes on to the next one, or returns its list to generateStaticPages, which
\* appends it to allPages and goes on to the next input
PageWrite ==
    /\ pc = "write"
    /\ LET page == discovered[pageIdx]
           pushed == Append(generatedPages, GenPage(page.slug, page.routeUrl))
       IN /\ outDir' = WriteFile(outDir, page.slug \o ".html", locals.finalHtml)
          /\ log' = Append(log, Event("write", inputIdx, pageIdx, page, Len(islands),
                                      locals.finalHtml))
          /\ generatedPages' = pushed
          /\ IF pageIdx < Len(discovered)
             THEN /\ pageIdx' = pageIdx + 1
                  /\ pc' = "scan"
                  /\ UNCHANGED <<allPages, inputIdx>>
             ELSE /\ allPages' = allPages \o pushed
                  /\ inputIdx' = inputIdx + 1
                  /\ pc' = "inputs"
                  /\ UNCHANGED pageIdx
    /\ UNCHANGED <<auxVars, hookCalls, hostVars, cfgVars, scanVars, options, dirs, isBuild, hasRun, discovered,
                   locals, failure>>

\* ssgPlugin writeBundle after generateStaticPages returned: configure the hosting platform
ConfigureHosting ==
    /\ pc = "inputs"
    /\ inputIdx > Len(options.pages)
    /\ options.hosting
    /\ LET baseUrl == HostingBaseUrl(options)
           r == Configure(manifest, allPages, baseUrl, hostCalls + 1)
       IN /\ manifest' = r.manifest
          /\ hostLast' = [made |-> TRUE, pages |-> allPages, baseUrl |-> baseUrl,
                          before |-> RewritesOf(manifest), err |-> r.err]
          /\ pc' = IF r.err = "" THEN "done" ELSE "failed"
          /\ failure' = IF r.err = "" THEN failure
                        ELSE [stage |-> "configure", input |-> 0, page |-> 0, message |-> r.err]
    /\ hostCalls' = hostCalls + 1
    /\ log' = Append(log, Event("configure", 0, 0, NoPage, 0, NoDoc))
    /\ UNCHANGED <<auxVars, hookCalls, cfgVars, scanVars, options, dirs, isBuild, hasRun, inputIdx, discovered,
                   pageIdx, locals, generatedPages, allPages, outDir>>

\* ssgPlugin writeBundle after generateStaticPages returned, no hosting platform configured
FinishWithoutHosting ==
    /\ pc = "inputs"
    /\ inputIdx > Len(options.pages)
    /\ ~options.hosting
    /\ pc' = "done"
    /\ UNCHANGED <<auxVars, hookCalls, hostVars, cfgVars, scanVars, options, dirs, isBuild, hasRun, inputIdx,
                   discovered, pageIdx, locals, generatedPages, allPages, outDir, failure, log>>

Next ==
    \/ WriteBundle
    \/ GenerateStaticWithInfo
    \/ PageScan
    \/ PageRender
    \/ PageImages
    \/ PageCss
    \/ PageHydrate
    \/ PageHtml
    \/ PageWrite
    \/ ConfigureHosting
    \/ FinishWithoutHosting

Spec == Init /\ [][Next]_vars

(***************************************************************************)
(* SpecHook: one build in which the writeBundle hook fires several times,  *)
(* before, while and after static generation runs (one call per output of  *)
(* the bundler; a call made while an earlier one awaits generation         *)
(* overlaps with it).                                                      *)
(***************************************************************************)
MaxHooks == 3

HookProjects ==
    { [inputs |-> <<"src/pages", LandingPath>>, kinds |-> <<HomeIslands, k>>, landing |-> l] :
        k \in { HomeStatic, AboutDropped }, l \in { Helper, HomeHero } }

InitHook ==
    /\ \E p \in HookProjects, c \in RunConfigs, h \in BOOLEAN :
          /\ files = RunTree(p.kinds, p.landing)
          /\ dirs = RunDirs(p.kinds)
          /\ options = [pages |-> p.inputs, config |-> c, hosting |-> h, verbose |-> FALSE]
    /\ isBuild \in BOOLEAN
    /\ hasRun = FALSE
    /\ pc = "idle"
    /\ inputIdx = 0
    /\ discovered = <<>>
    /\ pageIdx = 0
    /\ locals = NoLocals
    /\ generatedPages = <<>>
    /\ allPages = <<>>
    /\ outDir = <<>>
    /\ failure = NoFailure
    /\ log = <<>>
    /\ hookCalls = NoHooks
    /\ IdleAux
    /\ manifest \in RunManifests
    /\ hostCalls = 0
    /\ hostLast = NoCall
    /\ IdleCfg
    /\ scanPc = "idle"
    /\ queue = <<>>
    /\ visited = {}
    /\ foundComponentPaths = <<>>
    /\ islands = <<>>
    /\ hydrateScript = NoScript
    /\ reads = <<>>

\* ssgPlugin writeBundle, called at any moment of the build: it returns at once unless
\* this is a build whose generation has not been started, and sets hasRun before its
\* first await
WriteBundleHook ==
    /\ hookCalls.fired < MaxHooks
    /\ IF HookRuns(isBuild, hasRun)
       THEN /\ hasRun' = TRUE
            /\ hookCalls' = [fired |-> hookCalls.fired + 1, started |-> hookCalls.started + 1]
            /\ inputIdx' = 1
            /\ allPages' = <<>>
            /\ pc' = "inputs"
       ELSE /\ hookCalls' = [hookCalls EXCEPT !.fired = @ + 1]
            /\ UNCHANGED <<hasRun, inputIdx, allPages, pc>>
    /\ UNCHANGED <<auxVars, hostVars, cfgVars, scanVars, options, dirs, isBuild, discovered, pageIdx,
                   locals, generatedPages, outDir, failure, log>>

NextHook ==
    \/ WriteBundleHook
    \/ GenerateStaticWithInfo
    \/ PageScan
    \/ PageRender
    \/ PageImages
    \/ PageCss
    \/ PageHydrate
    \/ PageHtml
    \/ PageWrite
    \/ ConfigureHosting
    \/ FinishWithoutHosting

SpecHook == InitHook /\ [][NextHook]_vars

(***************************************************************************)
(* SpecDiscover: discoverPages on one input, the page files given by their *)
(* text.  A page source is written from a shape [layout, typed, slug,      *)
(* routeUrl, head]: layout "multi" is the options block over several lines *)
(* closed by "};", "single" the block on one line, "nosemi" the block over *)
(* several lines closed by "}" alone, "none" a file without the block;     *)
(* slug "" and routeUrl "" are blocks without that field.                  *)
(***************************************************************************)
MaxSources == 2

Shape(layout, typed, slug, routeUrl, head) ==
    [layout |-> layout, typed |-> typed, slug |-> slug, routeUrl |-> routeUrl, head |-> head]

\* the fields of the options block, as source text
ShapeFields(sh) ==
    (IF sh.slug = "" THEN <<>> ELSE << "slug: " \o JsonString(sh.slug) >>)
    \o (IF sh.routeUrl = "" THEN <<>> ELSE << "routeUrl: '" \o sh.routeUrl \o "'" >>)
    \o (IF sh.head THEN << "Head: () => null" >> ELSE <<>>)

RECURSIVE JoinWith(_, _, _)
JoinWith(parts, before, after) ==
    IF parts = <<>> THEN ""
    ELSE before \o Head(parts) \o after \o JoinWith(Tail(parts), before, after)

\* the text of a page file of the given shape
SourceText(sh) ==
    LET decl == "export const ssgOptions" \o (IF sh.typed THEN ": SsgOptions" ELSE "") \o " = "
        block == IF sh.layout = "multi"
                 THEN decl \o "{\n" \o JoinWith(ShapeFields(sh), "  ", ",\n") \o "};\n"
                 ELSE IF sh.layout = "nosemi"
                 THEN decl \o "{\n" \o JoinWith(ShapeFields(sh), "  ", ",\n") \o "}\n"
                 ELSE IF sh.layout = "single"
                 THEN decl \o "{" \o JoinWith(ShapeFields(sh), " ", ",") \o " };\n"
                 ELSE ""
    IN block \o "export default function Page() { return null; }\n"

PageShapes ==
    { Shape("multi", FALSE, "home", "/", FALSE),
      Shape("multi", TRUE, "about", "", TRUE),
      Shape("single", FALSE, "docs", "/docs", FALSE),
      Shape("nosemi", FALSE, "faq", "", FALSE),
      Shape("multi", FALSE, "", "/x", FALSE),
      Shape("none", FALSE, "", "", FALSE) }

\* a file on disk with the given text; `shape` is how the text was written, which the
\* code does not see
TextFile(sh) ==
    [ lines |-> <<>>, usages |-> <<>>, imports |-> <<>>,
      options |-> ParseSsgOptions(SourceText(sh)), imgs |-> <<>>,
      route |-> ParseStaticRoute(SourceText(sh)),
      text |-> SourceText(sh), shape |-> sh ]

SourceName(i) == "P" \o ToString(i) \o (IF i % 2 = 0 THEN ".jsx" ELSE ".tsx")

\* src/pages holds the sources P1.tsx, P2.jsx, ..., a file Draft.ts that is no component
\* file though its text has the block, and a subdirectory named nested.tsx
DiscoverTree(shapes) ==
    [ f \in { PathJoin(PagesDir, SourceName(i)) : i \in 1..Len(shapes) }
            \cup { PathJoin(PagesDir, "Draft.ts") } |->
        IF f = PathJoin(PagesDir, "Draft.ts")
        THEN TextFile(Shape("multi", FALSE, "draft", "/draft", FALSE))
        ELSE TextFile(shapes[CHOOSE i \in 1..Len(shapes) : PathJoin(PagesDir, SourceName(i)) = f]) ]

DiscoverDirs(shapes) ==
    PagesDir :> (<<"Draft.ts", "nested.tsx">> \o [i \in 1..Len(shapes) |-> SourceName(i)])

DiscoverInputs == { "src/pages", "/p/src/pages/P1.tsx", "src/missing" }

InitDiscover ==
    /\ \E shapes \in [1..MaxSources -> PageShapes], input \in DiscoverInputs :
          /\ files = DiscoverTree(shapes)
          /\ dirs = DiscoverDirs(shapes)
          /\ options = [pages |-> <<input>>, config |-> <<>>, hosting |-> FALSE,
                        verbose |-> FALSE]
    /\ isBuild = TRUE
    /\ hasRun = FALSE
    /\ pc = "idle"
    /\ inputIdx = 1
    /\ discovered = <<>>
    /\ pageIdx = 0
    /\ locals = NoLocals
    /\ generatedPages = <<>>
    /\ allPages = <<>>
    /\ outDir = <<>>
    /\ failure = NoFailure
    /\ log = <<>>
    /\ hookCalls = NoHooks
    /\ IdleAux
    /\ IdleHost
    /\ IdleCfg
    /\ scanPc = "idle"
    /\ queue = <<>>
    /\ visited = {}
    /\ foundComponentPaths = <<>>
    /\ islands = <<>>
    /\ hydrateScript = NoScript
    /\ reads = <<>>

\* gen-static.ts generateStaticWithInfo: `const pages = await discoverPages(input, config)`
DiscoverCall ==
    /\ pc = "idle"
    /\ LET r == DiscoverPages(options.pages[inputIdx], files, dirs) IN
       /\ discovered' = r.pages
       /\ failure' = IF r.err = "" THEN NoFailure
                     ELSE [stage |-> "discover", input |-> inputIdx, page |-> 0,
                           message |-> r.err]
       /\ pc' = IF r.err = "" THEN "discovered" ELSE "failed"
    /\ log' = Append(log, "discover")
    /\ UNCHANGED <<options, dirs, isBuild, hasRun, inputIdx, pageIdx, locals, generatedPages,
                   allPages, outDir, hookCalls, auxVars, hostVars, cfgVars, scanVars>>

NextDiscover == DiscoverCall

SpecDiscover == InitDiscover /\ [][NextDiscover]_vars

(***************************************************************************)
(* SpecDev: the dev-server middleware.  outDir is the output directory as  *)
(* an earlier build left it; an entry of kind "directory" is a directory   *)
(* of that name, which existsSync reports and readFileSync cannot read,    *)
(* one of kind "unreadable" a file whose read fails.                       *)
(* A response is [ended, nexted, statusCode, contentType, marker, body]:   *)
(* how often res.end and next were called, res.statusCode, the headers     *)
(* Content-Type and X-SSG-Dev-Middleware, and what res.end was given.      *)
(***************************************************************************)
MaxRequests == 2

\* dev-middleware.ts extractSsgOptionsFromFile: null when the file cannot be read
ExtractStaticRoute(filePath, fs) ==
    IF filePath \in DOMAIN fs THEN fs[filePath].route ELSE NoRoute

RECURSIVE DiscoverStaticRoutes(_, _, _)
\* dev-middleware.ts discoverStaticRoutes over the configured page paths
DiscoverStaticRoutes(pagePaths, fs, ds) ==
    IF pagePaths = <<>> THEN <<>>
    ELSE
    LET absolutePath == IF StartsWith(Head(pagePaths), "/") THEN Head(pagePaths)
                        ELSE PathJoin(Cwd, Head(pagePaths))
        names == IF absolutePath \in DOMAIN ds THEN ds[absolutePath] ELSE <<>>
        sources == SubSeqAt(names, { i \in 1..Len(names) :
                                       EndsWith(names[i], ".tsx") \/ EndsWith(names[i], ".jsx") })
        paths == IF absolutePath \in DOMAIN fs THEN << absolutePath >>
                 ELSE [i \in 1..Len(sources) |-> PathJoin(absolutePath, sources[i])]
        found == [i \in 1..Len(paths) |-> ExtractStaticRoute(paths[i], fs)]
    IN SubSeqAt(found, { i \in 1..Len(found) : found[i].has })
       \o DiscoverStaticRoutes(Tail(pagePaths), fs, ds)

\* node:path extname of a file name, lower-cased names only
PathExtname(name) ==
    LET dots == { i \in 2..Len(name) : SubSeq(name, i, i) = "." }
        slashes == { i \in 1..Len(name) : SubSeq(name, i, i) = "/" }
        last == IF dots = {} THEN 0 ELSE CHOOSE i \in dots : \A j \in dots : j <= i
    IN IF last = 0 \/ (\E k \in slashes : k >= last - 1) THEN ""
       ELSE SubSeq(name, last, Len(name))

\* dev-middleware.ts getContentType
ContentTypes ==
    [ e \in { ".html", ".css", ".js", ".mjs", ".json", ".png", ".jpg", ".jpeg", ".gif", ".svg",
              ".webp", ".ico", ".woff", ".woff2", ".ttf", ".eot" } |->
        CASE e = ".html" -> "text/html"
          [] e = ".css" -> "text/css"
          [] e \in { ".js", ".mjs" } -> "application/javascript"
          [] e = ".json" -> "application/json"
          [] e = ".png" -> "image/png"
          [] e \in { ".jpg", ".jpeg" } -> "image/jpeg"
          [] e = ".gif" -> "image/gif"
          [] e = ".svg" -> "image/svg+xml"
          [] e = ".webp" -> "image/webp"
          [] e = ".ico" -> "image/x-icon"
          [] e = ".woff" -> "font/woff"
          [] e = ".woff2" -> "font/woff2"
          [] e = ".ttf" -> "font/ttf"
          [] OTHER -> "application/vnd.ms-fontobject" ]

GetContentType(filePath) ==
    IF PathExtname(filePath) \in DOMAIN ContentTypes THEN ContentTypes[PathExtname(filePath)]
    ELSE "application/octet-stream"

\* the middleware's test /\.(js|ts|tsx|jsx|css|scss|png|...|eot)$/
AssetExtensions ==
    { ".js", ".ts", ".tsx", ".jsx", ".css", ".scss", ".png", ".jpg", ".jpeg", ".gif", ".svg",
      ".webp", ".ico", ".woff", ".woff2", ".ttf", ".eot" }

IsAssetRequest(url) == \E e \in AssetExtensions : EndsWith(url, e)

\* req.url?.split("?")[0] || "/"
RequestPath(req) ==
    LET path == SubSeq(req.url, 1, IndexOf(req.url, "?") - 1)
    IN IF ~req.hasUrl \/ path = "" THEN "/" ELSE path

\* options.config.baseUrl || "/static"
DevBaseUrl(opts) ==
    IF "baseUrl" \in DOMAIN opts.config /\ Truthy(opts.config["baseUrl"])
    THEN opts.config["baseUrl"].p
    ELSE "/static"

\* the predicate of routes.find
MatchesRoute(r, url) ==
    \/ r.routeUrl = url
    \/ r.routeUrl = "/" /\ url = "/"
    \/ url = r.routeUrl \o "/"
    \/ url \o "/" = r.routeUrl

\* routes.find: the position of the first matching route, 0 when there is none
MatchingRoute(routes, url) ==
    IF \E i \in 1..Len(routes) : MatchesRoute(routes[i], url)
    THEN SetMin({ i \in 1..Len(routes) : MatchesRoute(routes[i], url) })
    ELSE 0

\* generateNotGeneratedHtml: the page shows the route URL and the expected file
NotGeneratedHtml(route) ==
    [ kind |-> "diagnostic", title |-> "Static Page Not Yet Generated",
      routeUrl |-> route.routeUrl, expectedFile |-> route.htmlPath ]

Passed == [NoResponse EXCEPT !.nexted = 1]

\* an exception leaves the middleware function: it has neither ended the response nor
\* called next()
Thrown == [NoResponse EXCEPT !.threw = TRUE]

\* fs.readFileSync throws on this entry of the output directory: a directory, or a file
\* that cannot be read
ReadFails(entry) == entry.kind \in { "directory", "unreadable" }

\* a slip in the middleware: without the artifact the request is passed on
ServeRoute_NoDiagnostic(route, out) ==
    IF route.htmlPath \in DOMAIN out
    THEN IF ReadFails(out[route.htmlPath]) THEN Passed
         ELSE [NoResponse EXCEPT !.ended = 1, !.contentType = "text/html",
                                 !.marker = "static", !.body = out[route.htmlPath]]
    ELSE Passed

\* the middleware once a route matched: the artifact, or the diagnostic page; a failing
\* read lands in the catch, which calls next()
ServeRoute(route, out) ==
    IF route.htmlPath \in DOMAIN out
    THEN IF ReadFails(out[route.htmlPath]) THEN Passed
         ELSE [NoResponse EXCEPT !.ended = 1, !.contentType = "text/html",
                                 !.marker = "static", !.body = out[route.htmlPath]]
    ELSE [NoResponse EXCEPT !.ended = 1, !.contentType = "text/html",
                            !.marker = "not-generated", !.statusCode = 200,
                            !.body = NotGeneratedHtml(route)]

\* url.startsWith("/@") || url.startsWith("/__")
IsInternalRequest(url) == StartsWith(url, "/@") \/ StartsWith(url, "/__")

\* url.slice(baseUrl.length + 1)
RelativePath(url, baseUrl) == SubSeq(url, Len(baseUrl) + 2, Len(url))

\* the path is under baseUrl and names a file of the output directory
IsOutputFile(url, baseUrl, out) ==
    /\ StartsWith(url, baseUrl \o "/")
    /\ RelativePath(url, baseUrl) \in DOMAIN out
    /\ out[RelativePath(url, baseUrl)].kind # "directory"

\* whether the middleware gets as far as getRoutes() for this path
ReachesRoutes(url, baseUrl, out) ==
    ~IsInternalRequest(url) /\ ~IsOutputFile(url, baseUrl, out) /\ ~IsAssetRequest(url)

\* the middleware function: the response to a request for the path `url`, given the
\* routes getRoutes() returns
Middleware(url, routes, baseUrl, out) ==
    IF IsInternalRequest(url) THEN Passed
    ELSE IF IsOutputFile(url, baseUrl, out)
    THEN IF ReadFails(out[RelativePath(url, baseUrl)]) THEN Thrown
         ELSE
         [NoResponse EXCEPT !.ended = 1,
                            !.contentType = GetContentType(RelativePath(url, baseUrl)),
                            !.marker = "asset", !.body = out[RelativePath(url, baseUrl)]]
    ELSE IF IsAssetRequest(url) THEN Passed
    ELSE IF MatchingRoute(routes, url) = 0 THEN Passed
    ELSE ServeRoute(routes[MatchingRoute(routes, url)], out)

\* the shapes of the page sources of the dev project
DevShapes ==
    { Shape("multi", FALSE, "home", "/", FALSE),
      Shape("multi", TRUE, "about", "", FALSE),
      Shape("single", FALSE, "docs", "/docs", FALSE),
      Shape("multi", FALSE, "admin", "/__admin", FALSE),
      Shape("none", FALSE, "", "", FALSE) }

DevTree(shapes) ==
    [ f \in { PathJoin(PagesDir, SourceName(i)) : i \in 1..Len(shapes) } |->
        TextFile(shapes[CHOOSE i \in 1..Len(shapes) : PathJoin(PagesDir, SourceName(i)) = f]) ]

DevDirs(shapes) == PagesDir :> (<<"README.md">> \o [i \in 1..Len(shapes) |-> SourceName(i)])

\* what an earlier build may have left in dist/static
DevOutDirs ==
    { <<>>,
      ("home.html" :> Artifact("html", "home")) @@ ("docs.html" :> Artifact("html", "docs"))
        @@ ("home.css" :> Artifact("css", "home")),
      ("home.html" :> Artifact("directory", "")) @@ ("about.html" :> Artifact("html", "about")),
      ("home.html" :> Artifact("unreadable", "")) @@ ("home.css" :> Artifact("unreadable", "")) }

DevUrls ==
    { "/", "/?x=1", "/docs", "/docs/", "/__admin", "/@vite/client", "/static/home.css",
      "/static/home.html", "/app.js", "/other" }

DevRequests == { [url |-> u, hasUrl |-> TRUE] : u \in DevUrls } \cup { NoRequest }

InitDev ==
    /\ \E shapes \in [1..2 -> DevShapes] :
          /\ files = DevTree(shapes)
          /\ dirs = DevDirs(shapes)
    /\ options = [pages |-> <<"src/pages">>, config |-> <<>>, hosting |-> FALSE,
                  verbose |-> FALSE]
    /\ outDir \in DevOutDirs
    /\ isBuild = FALSE
    /\ hasRun = FALSE
    /\ pc = "idle"
    /\ inputIdx = 0
    /\ discovered = <<>>
    /\ pageIdx = 0
    /\ locals = NoLocals
    /\ generatedPages = <<>>
    /\ allPages = <<>>
    /\ failure = NoFailure
    /\ log = <<>>
    /\ hookCalls = NoHooks
    /\ IdleImg
    /\ IdleDev
    /\ IdleWeb
    /\ IdleHost
    /\ IdleCfg
    /\ scanPc = "idle"
    /\ queue = <<>>
    /\ visited = {}
    /\ foundComponentPaths = <<>>
    /\ islands = <<>>
    /\ hydrateScript = NoScript
    /\ reads = <<>>

devRest == <<imgVars, webVars, hostVars, cfgVars, visited, scanPc, queue, foundComponentPaths, islands,
             hydrateScript, reads, options, isBuild, hasRun, pc, inputIdx, discovered, pageIdx,
             locals, generatedPages, allPages, outDir, failure, log, hookCalls>>

\* a slip in the middleware: a request that finds the cache filled empties it
HandleRequest_DropsCache(req) ==
    /\ devCalls < MaxRequests
    /\ \E routes \in { IF cachedRoutes.loaded THEN cachedRoutes.routes
                       ELSE DiscoverStaticRoutes(options.pages, files, dirs) } :
       LET url == RequestPath(req)
           baseUrl == DevBaseUrl(options)
       IN /\ request' = req
          /\ response' = Middleware(url, routes, baseUrl, outDir)
          /\ cachedRoutes' = IF ReachesRoutes(url, baseUrl, outDir)
                             THEN IF cachedRoutes.loaded THEN NoRoutes
                                  ELSE [loaded |-> TRUE, routes |-> routes]
                             ELSE cachedRoutes
    /\ devCalls' = devCalls + 1
    /\ UNCHANGED <<devRest, files, dirs>>

\* the middleware handles one request; getRoutes() fills the cache when it is empty
HandleRequest(req) ==
    /\ devCalls < MaxRequests
    /\ \E routes \in { IF cachedRoutes.loaded THEN cachedRoutes.routes
                       ELSE DiscoverStaticRoutes(options.pages, files, dirs) } :
       LET url == RequestPath(req)
           baseUrl == DevBaseUrl(options)
       IN /\ request' = req
          /\ response' = Middleware(url, routes, baseUrl, outDir)
          /\ cachedRoutes' = IF ReachesRoutes(url, baseUrl, outDir)
                             THEN [loaded |-> TRUE, routes |-> routes]
                             ELSE cachedRoutes
    /\ devCalls' = devCalls + 1
    /\ UNCHANGED <<devRest, files, dirs>>

\* a page source is edited and the watcher reports the change: a change of a .tsx or .jsx
\* file empties the cache.  The response of the last request is gone by then.
WatcherChange(filePath, sh) ==
    /\ devCalls < MaxRequests
    /\ filePath \in DOMAIN files
    /\ files' = [files EXCEPT ![filePath] = TextFile(sh)]
    /\ cachedRoutes' = IF EndsWith(filePath, ".tsx") \/ EndsWith(filePath, ".jsx")
                       THEN NoRoutes ELSE cachedRoutes
    /\ request' = NoRequest
    /\ response' = NoResponse
    /\ devCalls' = devCalls + 1
    /\ UNCHANGED <<devRest, dirs>>

NextDev ==
    \/ \E req \in DevRequests : HandleRequest(req)
    \/ \E f \in DOMAIN files, sh \in DevShapes : WatcherChange(f, sh)

SpecDev == InitDev /\ [][NextDev]_vars

(***************************************************************************)
(* Claims about the orchestrator (checked under Spec).                     *)
(***************************************************************************)
\* the configuration every generateStaticWithInfo call of this build resolves
RunConfig == ResolveConfig(SsgConfigOf(options))

ImagesEnabled == Truthy(RunConfig["images"].o["enabled"])

\* the pages of the i-th configured input, in discovery order
PagesOfInput(i) == DiscoverPages(options.pages[i], files, dirs).pages

SamePage(e, f) == e.input = f.input /\ e.page = f.page

Writes == { n \in 1..Len(log) : log[n].stage = "write" }

\* the stages of one page, in order
ExpectedStages(withImages, withHydration) ==
    <<"scan", "render">> \o (IF withImages THEN <<"images">> ELSE <<>>)
    \o <<"css">> \o (IF withHydration THEN <<"hydrate">> ELSE <<>>)
    \o <<"html", "write">>

Follows(stages, a, b) ==
    \E q \in 1..(Len(stages) - 1) : stages[q] = a /\ stages[q + 1] = b

\* The history is page after page, each page's stages in the order of ExpectedStages,
\* and the configurator comes after the last write of the last input
PagesInSequence(withImages) ==
    \A n \in 1..Len(log) :
        LET e == log[n] IN
        IF e.stage = "configure"
        THEN /\ n = Len(log)
             /\ \A i \in 1..Len(options.pages) : \A k \in 1..Len(PagesOfInput(i)) :
                   \E m \in 1..(n - 1) :
                      log[m].stage = "write" /\ log[m].input = i /\ log[m].page = k
        ELSE IF e.stage = "scan"
        THEN IF n = 1 THEN e.input = 1 /\ e.page = 1
             ELSE /\ log[n - 1].stage = "write"
                  /\ \/ e.input = log[n - 1].input /\ e.page = log[n - 1].page + 1
                     \/ /\ e.input = log[n - 1].input + 1
                        /\ e.page = 1
                        /\ log[n - 1].page = Len(PagesOfInput(log[n - 1].input))
        ELSE /\ n > 1
             /\ SamePage(e, log[n - 1])
             /\ Follows(ExpectedStages(withImages, e.islands > 0), log[n - 1].stage, e.stage)

\* C1 as stated: pages are processed one after another, each page's stages being island
\* scan, SSR render, image optimization, CSS build, hydration build (only if islands
\* exist), HTML generation, artifact write, in that order; no stage of the next page
\* starts before the page's artifact is written; the hosting configurator runs only
\* after every page of every input has been written.
C1_AllStagesInOrder == PagesInSequence(TRUE)

\* C1 amended: the same, image optimization being a stage of the page only when
\* images.enabled is set in the resolved configuration.
C1_StagesInOrder == PagesInSequence(ImagesEnabled)

\* C1 witness: a build with image optimization disabled has run two inputs, built a
\* hydration bundle for a page, and configured the hosting platform
C1_Witness ==
    /\ pc = "done"
    /\ ~ImagesEnabled
    /\ Len(log) > 0 /\ log[Len(log)].stage = "configure"
    /\ \E n \in 1..Len(log) : log[n].stage = "hydrate"
    /\ \E n \in Writes : log[n].input = 2
    /\ \E n \in Writes : log[n].page = 2

\* C2: for a page whose validated island list is empty, buildHydrationBundle returns a
\* null path and creates no file, in the scratch directory or in the output directory,
\* and the document written for the page has no loader script and no reference to a
\* hydration script.
C2_NoIslandsNoHydration ==
    /\ \A n \in Writes :
          log[n].islands = 0 =>
             /\ log[n].doc.loaderSrc = ""
             /\ log[n].doc.ssrRoute = ""
             /\ ~\E m \in 1..Len(log) : log[m].stage = "hydrate" /\ SamePage(log[m], log[n])
    /\ (pc \in { "render", "images", "css", "hydrate", "html", "write" } /\ islands = <<>>) =>
          \A ok \in BOOLEAN :
             LET r == BuildHydrationBundle(discovered[pageIdx].slug, islands, resolved,
                                           outDir, ok)
             IN r.err = "" /\ r.hydratePath = "" /\ r.entry = "" /\ r.outDir = outDir

\* C2 witness: a page whose Island usages were all dropped has been written
C2_Witness ==
    \E n \in Writes :
        /\ log[n].islands = 0
        /\ files[log[n].component].usages # <<>>
        /\ log[n].doc.kind = "html"

\* C8: when the CSS build or the hydration build of a page fails, no {slug}.html is
\* written for that page in this run, and the pages that follow it in discovery order
\* are still generated.
C8_FailureAbortsOnlyThatPage ==
    (pc = "failed" /\ failure.stage \in { "css", "hydrate" }) =>
        /\ ~\E n \in Writes : log[n].input = failure.input /\ log[n].page = failure.page
        /\ \A k \in (failure.page + 1)..Len(discovered) :
              \E n \in Writes : log[n].input = failure.input /\ log[n].page = k

\* whether an input is a single file without a conforming options block, or a directory
\* without a conforming page, read off the files themselves
Conforming(path) ==
    path \in DOMAIN files /\ files[path].options.has /\ files[path].options.slug # ""

InputLevelFailure(input) ==
    LET absolute == IF SubSeq(input, 1, 1) = "/" THEN input ELSE Cwd \o "/" \o input IN
    \/ absolute \in DOMAIN files /\ ~Conforming(absolute)
    \/ /\ absolute \in DOMAIN dirs
       /\ ~\E j \in 1..Len(dirs[absolute]) :
             LET name == dirs[absolute][j] IN
             /\ Len(name) > 4
             /\ SubSeq(name, Len(name) - 3, Len(name)) \in { ".tsx", ".jsx" }
             /\ Conforming(absolute \o "/" \o name)

\* C9: for an input that is a single file without the page-options block, or a directory
\* with no conforming page, generateStaticWithInfo fails before any page stage: the
\* history has no stage of that input, nothing was written for it, and no list is returned.
C9_InputFailureBeforeAnyStage ==
    \A i \in 1..Len(options.pages) :
        ((i < inputIdx \/ (i = inputIdx /\ pc # "inputs")) /\ InputLevelFailure(options.pages[i])) =>
            /\ pc = "failed"
            /\ failure.stage = "discover" /\ failure.input = i
            /\ ~\E n \in 1..Len(log) : log[n].input = i
            /\ generatedPages = <<>>
            /\ Len(allPages) = Cardinality({ n \in Writes : log[n].input < i })

\* C9 witness: the second input failed at discovery after the first one's pages were written
C9_Witness ==
    /\ pc = "failed"
    /\ failure.stage = "discover" /\ failure.input = 2
    /\ InputLevelFailure(options.pages[2])
    /\ Writes # {}

\* C10: two discovered pages with one slug raise no error: the page pipelines run to
\* their artifact writes in discovery order, a write never fails, and {slug}.html holds
\* the document of the last page written under that slug.
C10_LastWriteWins ==
    /\ \A n \in Writes :
          (~\E m \in Writes : m > n /\ log[m].slug = log[n].slug) =>
             /\ (log[n].slug \o ".html") \in DOMAIN outDir
             /\ outDir[log[n].slug \o ".html"] = log[n].doc
    /\ \A n \in Writes : \A m \in Writes :
          n < m => \/ log[n].input < log[m].input
                   \/ log[n].input = log[m].input /\ log[n].page < log[m].page
    /\ pc = "failed" => failure.stage \in { "discover", "render", "css", "hydrate", "configure" }
    /\ pc = "done" =>
          \A i \in 1..Len(options.pages) : \A k \in 1..Len(PagesOfInput(i)) :
             \E n \in Writes : log[n].input = i /\ log[n].page = k

\* C10 witness: the run is over and two different pages were written under one slug
C10_Witness ==
    /\ pc = "done"
    /\ \E n \in Writes : \E m \in Writes :
          /\ n < m
          /\ log[n].slug = log[m].slug
          /\ log[n].doc # log[m].doc
          /\ outDir[log[m].slug \o ".html"] = log[m].doc

\* the page whose document the last step wrote, if the last step was a write
JustWritten == Len(log) > 0 /\ log[Len(log)].stage = "write"

\* the file of the output directory behind a URL under baseUrl
FileOfUrl(url) ==
    SubSeq(url, Len(resolved["baseUrl"].p) + 2, Len(url))

\* the <img> elements of a document whose src was rewritten to an optimized image
RewrittenImgs(doc) ==
    { i \in 1..Len(doc.body.imgs) :
        StartsWith(doc.body.imgs[i].src, resolved["baseUrl"].p \o "/images/") }

\* C11: for every page with at least one validated island, at the moment
\* {outDir}/{slug}.html is written it contains the deferred-hydration loader referencing
\* {baseUrl}/{slug}-hydrate.js, and every artifact the document references (the hydration
\* bundle, the CSS bundle when a stylesheet link is emitted, every optimized image named
\* by a rewritten src) has already been produced by that same page's pipeline run.
C11_ReferencedArtifactsFromSameRun ==
    (JustWritten /\ log[Len(log)].islands > 0) =>
        LET e == log[Len(log)] IN
        /\ e.doc.loaderSrc = JsonString(resolved["baseUrl"].p \o "/" \o e.slug \o "-hydrate.js")
        /\ (e.slug \o "-hydrate.js") \in DOMAIN outDir
        /\ \E m \in 1..Len(log) : log[m].stage = "hydrate" /\ SamePage(log[m], e)
        /\ e.doc.stylesheet # "" =>
              /\ FileOfUrl(e.doc.stylesheet) \in DOMAIN outDir
              /\ outDir[FileOfUrl(e.doc.stylesheet)].body.text = e.component
        /\ \A i \in RewrittenImgs(e.doc) :
              /\ FileOfUrl(e.doc.body.imgs[i].src) \in DOMAIN outDir
              /\ outDir[FileOfUrl(e.doc.body.imgs[i].src)].body.text = e.component

\* C11, the parts that hold: the loader, the hydration bundle and the optimized images
C11_LoaderBundleAndImages ==
    (JustWritten /\ log[Len(log)].islands > 0) =>
        LET e == log[Len(log)] IN
        /\ e.doc.loaderSrc = JsonString(resolved["baseUrl"].p \o "/" \o e.slug \o "-hydrate.js")
        /\ (e.slug \o "-hydrate.js") \in DOMAIN outDir
        /\ \E m \in 1..Len(log) : log[m].stage = "hydrate" /\ SamePage(log[m], e)
        /\ \A i \in RewrittenImgs(e.doc) :
              /\ FileOfUrl(e.doc.body.imgs[i].src) \in DOMAIN outDir
              /\ outDir[FileOfUrl(e.doc.body.imgs[i].src)].body.text = e.component

\* a page with an island was written with a rewritten image
C11_Reached ==
    JustWritten /\ log[Len(log)].islands > 0 /\ RewrittenImgs(log[Len(log)].doc) # {}
        /\ log[Len(log)].doc.stylesheet # ""

(***************************************************************************)
(* Claims about the image optimizer (checked under SpecImg).               *)
(***************************************************************************)
\* the concurrency bound of the call
ConcurrencyBound ==
    IF "concurrency" \in DOMAIN imageOptions THEN imageOptions.concurrency ELSE 5

\* the remote URLs the markup's <img> elements reference, read off the markup
RemoteUrl(element) ==
    LET url == DecodeHtmlEntities(element.src)
    IN  IF /\ (StartsWith(url, "http://") \/ StartsWith(url, "https://"))
           /\ ~EndsWith(url, ".svg")
        THEN url ELSE ""

RemoteUrls == { RemoteUrl(inputHtml.imgs[i]) : i \in 1..Len(inputHtml.imgs) } \ { "" }

\* the batch a URL belongs to, counted from 0
BatchOf(url) ==
    ((CHOOSE i \in 1..Len(uniqueUrls) : uniqueUrls[i] = url) - 1) \div ConcurrencyBound

\* the download loop is over
Downloaded == imgPc = "process" \/ (imgPc = "done" /\ images # <<>>)

\* C12: during optimizeImages at most N downloads (the concurrency bound, 5 by default)
\* are in flight at any moment, a new batch starts only after every download of the
\* previous batch has settled, and each unique remote URL is downloaded exactly once
\* however many image elements reference it.
C12_BoundedBatchesEachUrlOnce ==
    /\ Cardinality(inFlight) <= ConcurrencyBound
    /\ \A u \in inFlight :
          /\ u \notin DOMAIN settled
          /\ \A v \in DOMAIN attempts :
                BatchOf(v) < BatchOf(u) => v \in DOMAIN settled
          /\ \A v \in RemoteUrls : BatchOf(v) > BatchOf(u) => v \notin DOMAIN attempts
    /\ \A u \in DOMAIN attempts : attempts[u] = 1 /\ u \in RemoteUrls
    /\ Downloaded => \A u \in RemoteUrls : u \in DOMAIN attempts /\ u \in DOMAIN settled

\* C12 witness: the second batch is in flight after the first one settled, two elements
\* of the markup referencing one URL
C12_Witness ==
    /\ imgPc = "await"
    /\ batchStart > 0
    /\ inFlight # {}
    /\ \E i \in 1..Len(images) : \E j \in 1..Len(images) :
          i # j /\ images[i].url = images[j].url /\ images[i].isExternal

\* the elements of the returned markup, position by position those of the input
Rewritten(i) ==
    /\ returned.html.imgs[i].src # inputHtml.imgs[i].src
    /\ StartsWith(returned.html.imgs[i].src, imageOptions.baseUrl \o "/images/")
    /\ SubSeq(returned.html.imgs[i].src, Len(imageOptions.baseUrl) + 9,
              Len(returned.html.imgs[i].src)) \in DOMAIN imagesDir

\* C13: a failed download of one URL never cancels or discards any other download: every
\* other URL of the same batch and of all later batches is still downloaded and
\* optimized, optimizeImages still returns normally, and each image element whose URL
\* failed is left in the markup exactly as it was.
C13_FailureIsolatedPerUrl ==
    /\ Downloaded =>
          /\ \A u \in RemoteUrls : u \in DOMAIN settled
          /\ \A u \in RemoteUrls : settled[u] <=> u \in DOMAIN downloadCache
    /\ (imgPc = "done" /\ images # <<>>) =>
          /\ Len(returned.html.imgs) = Len(inputHtml.imgs)
          /\ \A i \in 1..Len(inputHtml.imgs) :
                LET u == RemoteUrl(inputHtml.imgs[i]) IN
                IF u # "" /\ settled[u]
                THEN Rewritten(i)
                ELSE returned.html.imgs[i] = inputHtml.imgs[i]

\* C13 witness: the call has returned; a download of the first batch was rejected, a later
\* URL was downloaded and its element rewritten, the failed one's was left alone
C13_Witness ==
    /\ imgPc = "done"
    /\ Len(uniqueUrls) = 2
    /\ ~settled[uniqueUrls[1]]
    /\ settled[uniqueUrls[2]]
    /\ \E i \in 1..Len(inputHtml.imgs) : Rewritten(i)
    /\ \E i \in 1..Len(inputHtml.imgs) :
          /\ RemoteUrl(inputHtml.imgs[i]) = uniqueUrls[1]
          /\ returned.html.imgs[i] = inputHtml.imgs[i]

\* C15: the optimized image filename is a function of the source URL, the target width
\* and the output format only, so the same URL at the same width always maps to the same
\* filename; and within one optimizeImages call a file whose target filename has already
\* been written in that call is not written again.
C15_FilenameFunctionNoRewrite ==
    /\ \A i \in 1..Len(optimizedImages) : \A j \in 1..Len(optimizedImages) :
          LET a == optimizedImages[i]
              b == optimizedImages[j]
          IN  (a.originalUrl = b.originalUrl /\ a.width = b.width /\ a.format = b.format)
                  => a.localUrl = b.localUrl
    /\ \A i \in 1..Len(fileWrites) : \A j \in 1..Len(fileWrites) :
          i # j => fileWrites[i] # fileWrites[j]

\* C15, the part that holds: equal URL, width and format give equal filenames, and a
\* srcset file named as the image's primary file is not written a second time
C15_FilenameFunction ==
    \A i \in 1..Len(optimizedImages) : \A j \in 1..Len(optimizedImages) :
        LET a == optimizedImages[i]
            b == optimizedImages[j]
        IN  (a.originalUrl = b.originalUrl /\ a.width = b.width /\ a.format = b.format)
                => a.localUrl = b.localUrl

(***************************************************************************)
(* More claims about the island scanner (checked under SpecScanLive).      *)
(***************************************************************************)
\* every ordering of a list
Orderings(xs) ==
    { [i \in 1..Len(xs) |-> xs[p[i]]] : p \in Permutations(1..Len(xs)) }

\* the file sets that differ from fs only in the order of the import statements and of
\* the Island usages inside the files
RECURSIVE ReorderFiles(_, _)
ReorderFiles(fs, names) ==
    IF names = {} THEN { fs }
    ELSE LET f == CHOOSE x \in names : TRUE
         IN  { [g EXCEPT ![f] = [@ EXCEPT !.usages = u, !.imports = m]] :
                 g \in ReorderFiles(fs, names \ {f}),
                 u \in Orderings(fs[f].usages), m \in Orderings(fs[f].imports) }

Reorderings(fs) == ReorderFiles(fs, DOMAIN fs)

Descriptors(list) == { list[i] : i \in 1..Len(list) }

\* C14: scanForIslands is idempotent and order-independent: over an unchanged file set it
\* returns the same set of island descriptors on every run, and that set is the same for
\* every ordering of the import statements and Island usages inside the files; the
\* descriptors are de-duplicated by importPath, no two sharing one.
C14_ScanOrderIndependent ==
    scanPc = "done" =>
        /\ ScanForIslands(ScanEntry, SrcDir, files) = islands
        /\ \A fs \in Reorderings(files) :
              Descriptors(ScanForIslands(ScanEntry, SrcDir, fs)) = Descriptors(islands)
        /\ \A i \in 1..Len(islands) : \A j \in 1..Len(islands) :
              islands[i].importPath = islands[j].importPath => i = j

\* C14 witness: a scan over files with several imports and several usages has ended with
\* two islands, and another ordering of the same files lists them in another order
C14_Witness ==
    /\ scanPc = "done"
    /\ Len(islands) >= 2
    /\ \E f \in DOMAIN files : Len(files[f].imports) >= 2
    /\ \E fs \in Reorderings(files) : ScanForIslands(ScanEntry, SrcDir, fs) # islands

\* the files an import of f leads to, package imports left aside
LocalTargets(f) ==
    { ResolveImportPath(files[f].imports[i], f, SrcDir, files) :
        i \in { k \in 1..Len(files[f].imports) :
                  StartsWith(files[f].imports[k], ".") \/ StartsWith(files[f].imports[k], "/") } }
    \ { "" }

RECURSIVE ImportClosure(_, _)
ImportClosure(S, n) ==
    IF n = 0 THEN S
    ELSE ImportClosure(S \cup UNION { LocalTargets(f) : f \in S }, n - 1)

\* the files reachable from the entry file over local imports
ReachableFiles == ImportClosure({ ScanEntry }, Cardinality(DOMAIN files))

\* C20: scanForIslands terminates on every finite local-import graph, import cycles and
\* self-imports included, having read each reachable file for usages and imports exactly
\* once; package (non-relative, non-root-relative) imports are never entered.
C20_ScanTerminatesReadingOnce ==
    <>(scanPc = "done"
       /\ \A f \in DOMAIN files : reads[f] = IF f \in ReachableFiles THEN 1 ELSE 0)

\* C20 witness: the scan has ended on a graph where Home imports itself and a package,
\* and Layout imports Home back
C20_Witness ==
    /\ scanPc = "done"
    /\ files[ScanEntry].imports = <<"react", "../components/Layout", "./Home">>
    /\ files["/p/src/components/Layout.tsx"].imports = <<"../pages/Home">>
    /\ reads["/p/src/components/Layout.tsx"] = 1
    /\ reads["/p/src/pages/react.tsx"] = 0

(***************************************************************************)
(* More claims about the hosting configurator (checked under SpecHost).    *)
(***************************************************************************)
\* C17: when the manifest file does not exist, or exists without a hosting section,
\* configure fails with an error and performs no write: the manifest on disk is what it
\* was before the call.
C17_NoManifestNoWrite ==
    [][(hostCalls' # hostCalls /\ (~manifest.exists \/ manifest.hosting = "none"))
          => /\ hostLast'.err # ""
             /\ manifest' = manifest]_vars

\* C17 witness: configure was called with pages on a manifest that exists without a
\* hosting section, and failed
C17_Witness ==
    /\ hostLast.made
    /\ hostLast.pages # <<>>
    /\ manifest.exists
    /\ manifest.hosting = "none"
    /\ hostLast.err = "No hosting configuration found in firebase.json"

(***************************************************************************)
(* Claims about page discovery (checked under SpecDiscover).               *)
(***************************************************************************)
\* the immediate component files of the input directory, in listing order
ComponentFiles ==
    LET names == dirs[PagesDir]
        sources == SubSeqAt(names, { i \in 1..Len(names) :
                      /\ EndsWith(names[i], ".tsx") \/ EndsWith(names[i], ".jsx")
                      /\ PathJoin(PagesDir, names[i]) \in DOMAIN files })
    IN [i \in 1..Len(sources) |-> PathJoin(PagesDir, sources[i])]

\* the file was written with an options block that has a string slug
WrittenConforming(f) == files[f].shape.layout # "none" /\ files[f].shape.slug # ""

ConformingFiles ==
    SubSeqAt(ComponentFiles, { i \in 1..Len(ComponentFiles) : WrittenConforming(ComponentFiles[i]) })

DirDiscovered == pc # "idle" /\ options.pages[1] = "src/pages"

\* C16: for a directory input, the slugs returned by discoverPages are exactly the slug
\* values of the immediate component files that contain a conforming page-options block,
\* one descriptor per such file; a non-conforming file is excluded and never makes
\* discovery fail.
C16_SlugsOfConformingFiles ==
    DirDiscovered =>
        /\ pc = "discovered"
        /\ Len(discovered) = Len(ConformingFiles)
        /\ \A i \in 1..Len(ConformingFiles) :
              /\ discovered[i].componentPath = ConformingFiles[i]
              /\ discovered[i].slug = files[ConformingFiles[i]].shape.slug

\* the part of C16 that holds: discovery of a directory never fails; every descriptor
\* stands for an immediate component file written with a slug and carries that slug, no
\* file has two descriptors, and every component file whose block spans several lines and
\* is closed by "};" has one
C16_MultiLineBlocksDiscovered ==
    DirDiscovered =>
        /\ pc = "discovered"
        /\ \A i \in 1..Len(discovered) :
              /\ \E k \in 1..Len(ConformingFiles) : discovered[i].componentPath = ConformingFiles[k]
              /\ discovered[i].slug = files[discovered[i].componentPath].shape.slug
              /\ \A j \in 1..Len(discovered) :
                    discovered[j].componentPath = discovered[i].componentPath => i = j
        /\ \A k \in 1..Len(ConformingFiles) :
              files[ConformingFiles[k]].shape.layout = "multi"
                 => \E i \in 1..Len(discovered) : discovered[i].componentPath = ConformingFiles[k]

\* a directory with a one-line block next to a several-line block has been discovered
C16_Reached ==
    /\ DirDiscovered
    /\ \E k \in 1..Len(ConformingFiles) : files[ConformingFiles[k]].shape.layout = "single"
    /\ Len(discovered) = 1

(***************************************************************************)
(* Claims about the plugin hook (checked under SpecHook).                  *)
(***************************************************************************)
\* the number of pages the configured inputs hold
RECURSIVE PageCountFrom(_)
PageCountFrom(i) ==
    IF i > Len(options.pages) THEN 0
    ELSE Len(DiscoverPages(options.pages[i], files, dirs).pages) + PageCountFrom(i + 1)

GenerationFailed == failure # NoFailure /\ failure.stage # "configure"

\* C19: within one build, however many times the writeBundle hook fires, static
\* generation is started at most once and only when the command is a build; hosting
\* configuration is applied only after generation of all pages completed without error,
\* and never when generation failed.
C19_GenerationOncePerBuild ==
    /\ hookCalls.started <= 1
    /\ hookCalls.started = 1 => isBuild
    /\ hostCalls <= hookCalls.started
    /\ hostLast.made =>
          /\ ~GenerationFailed
          /\ options.hosting
          /\ Len(allPages) = PageCountFrom(1)
          /\ hostLast.pages = allPages
          /\ \A i \in 1..Len(allPages) : allPages[i].htmlPath \in DOMAIN outDir
    /\ GenerationFailed => hostCalls = 0 /\ pc = "failed"

\* C19 witness: the hook fired three times in a build, generation ran once over three
\* pages, and the hosting platform was configured afterwards
C19_Witness ==
    /\ hookCalls.fired = 3
    /\ hookCalls.started = 1
    /\ pc = "done"
    /\ Len(allPages) = 3
    /\ hostLast.made /\ hostLast.err = ""

(***************************************************************************)
(* Claims about the dev middleware (checked under SpecDev).                *)
(***************************************************************************)
\* the routes of the pages discovery finds in the files as they are now
KnownRoutes == DiscoverStaticRoutes(options.pages, files, dirs)

\* a request path matches a route: the same path, or the same up to one trailing slash
PathMatches(routeUrl, url) ==
    routeUrl = url \/ url = routeUrl \o "/" \/ url \o "/" = routeUrl

\* the first discovered page whose route the request path matches, 0 when there is none
RequestedPage ==
    LET hits == { i \in 1..Len(KnownRoutes) :
                    PathMatches(KnownRoutes[i].routeUrl, RequestPath(request)) }
    IN IF hits = {} THEN 0 ELSE SetMin(hits)

Handled == response.ended + response.nexted >= 1

\* the middleware answered with the artifact of the page, or with the diagnostic page
AnsweredFor(route) ==
    /\ response.ended = 1
    /\ response.nexted = 0
    /\ response.statusCode = 200
    /\ response.contentType = "text/html"
    /\ IF route.htmlPath \in DOMAIN outDir
       THEN response.body = outDir[route.htmlPath]
       ELSE /\ response.body.kind = "diagnostic"
            /\ response.body.routeUrl = route.routeUrl
            /\ response.body.expectedFile = route.htmlPath

\* C18 as stated: for every dev-time request whose path matches the route of a discovered
\* page, the middleware answers it itself and never yields a 404 or passes it on: if
\* {outDir}/{slug}.html exists it serves that file's content verbatim as text/html,
\* otherwise it serves, with status 200, a diagnostic page naming the route and the
\* expected artifact.
C18_MatchingRouteAlwaysAnswered ==
    (Handled /\ RequestedPage # 0) => AnsweredFor(KnownRoutes[RequestedPage])

\* C18 amended: a request whose path matches the route of a discovered page, does not
\* begin with /@ or /__, does not end in an asset extension and does not name a file of
\* the output directory under the base URL is answered by the middleware itself, with the
\* artifact of the first such page or, when there is none, with the diagnostic page;
\* only when the artifact cannot be read is the request passed on.  No response has a
\* status other than 200, and nothing is both answered and passed on.
C18_RouteAnsweredUnlessSkipped ==
    Handled =>
        /\ response.statusCode = 200
        /\ response.ended + response.nexted = 1
        /\ (/\ RequestedPage # 0
            /\ ~IsInternalRequest(RequestPath(request))
            /\ ~IsAssetRequest(RequestPath(request))
            /\ ~IsOutputFile(RequestPath(request), DevBaseUrl(options), outDir))
           => LET route == KnownRoutes[RequestedPage] IN
              IF route.htmlPath \in DOMAIN outDir /\ ReadFails(outDir[route.htmlPath])
              THEN response.nexted = 1
              ELSE AnsweredFor(route)

\* C18 witness: after a page source was edited, a request for "/" with a query string was
\* answered with the page's artifact
C18_Witness ==
    /\ devCalls = 2
    /\ request.url = "/?x=1"
    /\ RequestedPage # 0
    /\ response.ended = 1
    /\ response.marker = "static"
    /\ response.body = outDir[KnownRoutes[RequestedPage].htmlPath]

(***************************************************************************)
(* Claims about the directive check (checked under SpecScan).              *)
(***************************************************************************)
\* the first line of a file that is not empty once trimmed, "" when there is none
RECURSIVE FirstNonEmptyLine(_)
FirstNonEmptyLine(lines) ==
    IF lines = <<>> THEN ""
    ELSE IF Trim(lines[1]) # "" THEN Trim(lines[1])
    ELSE FirstNonEmptyLine(Tail(lines))

IsValidated(f) == \E i \in 1..Len(islands) : islands[i].filePath = f

\* C21: a referenced component that resolves to a file is in the validated island list
\* exactly when the file's first non-empty line is the directive marker literal
\* ('use island' or "use island", optionally followed by a semicolon); empty lines
\* before it make no difference.
C21_ValidatedIffFirstNonEmptyLineIsMarker ==
    scanPc = "done" =>
        \A f \in ReferencedFiles :
            IsValidated(f) <=> FirstNonEmptyLine(files[f].lines) \in ExactMarkers

(***************************************************************************)
(* SpecLcp: step 3 of generateStaticPage, the call of optimizeImages on a   *)
(* page of several images, for each configured images.lcpImageCount.       *)
(***************************************************************************)
MaxLcp == 6

MaxBodyImages == 6

\* the i-th <img> of a page body: an external image, each element distinct
BodyImage(i) == ImgElement(PngUrl, 400, 0, "img" \o ToString(i))

\* page bodies of k external images: plain, with a local image in front, or with the
\* last image already carrying a loading attribute
LcpMarkups ==
    { Html("<main>", [i \in 1..k |-> BodyImage(i)]) : k \in 0..MaxBodyImages }
    \cup { Html("<main>", << ImgElement("/logo.png", 32, 32, "logo") >>
                          \o [i \in 1..k |-> BodyImage(i)]) : k \in 1..MaxBodyImages }
    \cup { Html("<main>", [i \in 1..k |->
                  IF i = k THEN [BodyImage(i) EXCEPT !.loading = "eager"] ELSE BodyImage(i)]) :
             k \in 1..MaxBodyImages }

\* the user's configurations: none, or images.lcpImageCount set
LcpConfigs ==
    { <<>> } \cup { "images" :> Obj([lcpImageCount |-> Prim(ToString(n))]) : n \in 0..MaxLcp }

InitLcp ==
    /\ IdleHost
    /\ IdleScan
    /\ IdleRun
    /\ IdleDev
    /\ IdleWeb
    /\ userConfig \in LcpConfigs
    /\ resolved = ResolveConfig(userConfig)
    /\ cfgPc = "resolved"
    /\ inputHtml \in LcpMarkups
    /\ imageOptions = ImageCallOptions(resolved)
    /\ images = <<>>
    /\ uniqueUrls = <<>>
    /\ imgPc = "start"
    /\ batchStart = 0
    /\ inFlight = {}
    /\ settled = <<>>
    /\ downloadCache = <<>>
    /\ imgIdx = 0
    /\ optimizedImages = <<>>
    /\ replacements = <<>>
    /\ imagesDir = <<>>
    /\ returned = NoReturn
    /\ attempts = <<>>
    /\ fileWrites = <<>>

\* gen-static.ts generateStaticPage step 3 hands optimizeImages the body and the options
\* taken from the configuration; the call then runs as in SpecImg
SpecLcp == InitLcp /\ [][NextImg]_vars

(***************************************************************************)
(* Claims about lazy loading (checked under SpecLcp).                      *)
(***************************************************************************)
\* the configured above-the-fold count
LcpImageCount == ParseNumber(resolved["images"].o["lcpImageCount"].p)

\* the positions in the body of the elements that were optimized
OptimizedAt ==
    IF returned.images = <<>> THEN {}
    ELSE { j \in 1..Len(inputHtml.imgs) :
             ImageInfo(inputHtml.imgs[j]) # <<>> /\ ImageInfo(inputHtml.imgs[j])[1].isExternal }

\* the position of element j among the optimized images
OptimizedRank(j) == Cardinality({ i \in OptimizedAt : i <= j })

\* C22: in the markup optimizeImages returns, an optimized image that had no loading
\* attribute carries loading="lazy" exactly when its position among the optimized
\* images is beyond images.lcpImageCount.
C22_LazyBeyondLcpImageCount ==
    imgPc = "done" =>
        \A j \in OptimizedAt :
            inputHtml.imgs[j].loading = "" =>
                (returned.html.imgs[j].loading = "lazy" <=> OptimizedRank(j) > LcpImageCount)

(***************************************************************************)
(* SpecDim: the processing loop of optimizeImages on one image, for every  *)
(* native size of the downloaded image and every declared width and        *)
(* height; the run starts where the download loop has ended.               *)
(***************************************************************************)
MaxDim == 4

\* the <img> with its declared width and height, 0 for an absent attribute
SizedImage(width, height) == ImgElement(PngUrl, width, height, "pic")

\* a downloaded image whose metadata reports the native size
SizedBuffer(width, height) ==
    [url |-> PngUrl, metadata |-> [width |-> width, height |-> height, format |-> "png"]]

InitDim ==
    /\ IdleHost
    /\ IdleCfg
    /\ IdleScan
    /\ IdleRun
    /\ IdleDev
    /\ IdleWeb
    /\ \E width \in 0..(MaxDim + 1), height \in 0..(MaxDim + 1) :
          inputHtml = Html("<main>", << SizedImage(width, height) >>)
    /\ imageOptions = [outputDir |-> "/p/dist/static", baseUrl |-> "/static"]
    /\ images = ExtractImages(inputHtml)
    /\ uniqueUrls = UniqueUrls(images)
    /\ imgPc = "process"
    /\ batchStart = ImageOptions(imageOptions).concurrency
    /\ inFlight = {}
    /\ settled = (PngUrl :> TRUE)
    /\ \E width \in 1..MaxDim, height \in 1..MaxDim :
          downloadCache = (PngUrl :> SizedBuffer(width, height))
    /\ imgIdx = 1
    /\ optimizedImages = <<>>
    /\ replacements = <<>>
    /\ imagesDir = <<>>
    /\ returned = NoReturn
    /\ attempts = (PngUrl :> 1)
    /\ fileWrites = <<>>

NextDim == ImgProcess \/ ImgReturn

SpecDim == InitDim /\ [][NextDim]_vars

(***************************************************************************)
(* Claims about the output dimensions (checked under SpecDim).             *)
(***************************************************************************)
\* the native size of the source image
NativeSize == downloadCache[PngUrl].metadata

\* C23: the width and height optimizeImage computes, which are recorded for the image
\* and written into the rewritten markup, do not exceed the source's native width and
\* height, whatever width and height the element declares.
C23_NeverUpscaled ==
    imgPc = "done" =>
        /\ \A i \in 1..Len(returned.images) :
              /\ returned.images[i].width <= NativeSize.width
              /\ returned.images[i].height <= NativeSize.height
        /\ \A j \in 1..Len(returned.html.imgs) :
              /\ returned.html.imgs[j].width <= NativeSize.width
              /\ returned.html.imgs[j].height <= NativeSize.height

(***************************************************************************)
(* SpecBundle: calls of buildCssBundle and buildHydrationBundle, step by   *)
(* step: the entry file is written into the scratch directory, the         *)
(* bundler runs (it emits its files into the output directory, or throws), *)
(* the CSS builder deletes JS files, and the finally block runs.           *)
(***************************************************************************)
MaxBundles == 2

ChunkHash == "abc123"

\* the name of the synthetic entry file in the scratch directory
EntryName(call) ==
    IF call.kind = "css" THEN "_temp_" \o call.slug \o "_entry.tsx"
    ELSE "_temp_" \o call.slug \o "_hydrate.tsx"

\* rollupOptions.output of the call: the names of the files the bundler emits
EmittedNames(call) ==
    LET stem == IF call.kind = "css" THEN call.slug ELSE call.slug \o "-hydrate"
    IN  { stem \o ".js" }
        \cup (IF call.chunks > 0 THEN { stem \o "-" \o ChunkHash \o ".js" } ELSE {})
        \cup (IF call.cssEmitted THEN { stem \o ".css" } ELSE {})

\* vite's build with emptyOutDir: false: the emitted files are added to the directory
Emit(dir, call) ==
    [f \in DOMAIN dir \cup EmittedNames(call) |->
        IF f \in EmittedNames(call) THEN Artifact(call.kind, call.componentPath) ELSE dir[f]]

\* css-builder.ts buildCssBundle: the files of the output directory the loop unlinks
SweptNames(dir) == { f \in DOMAIN dir : EndsWith(f, ".js") /\ ~Includes(f, "hydrate") }

\* a slip in the builders: the entry file is removed only when the bundler succeeded
AfterTry_SuccessOnly(dir, entry, threw) ==
    IF ~threw /\ entry \in DOMAIN dir THEN [f \in DOMAIN dir \ { entry } |-> dir[f]] ELSE dir

\* the builders' finally block: if (fs.existsSync(entry)) fs.unlinkSync(entry)
AfterTry(dir, entry, threw) ==
    IF entry \in DOMAIN dir THEN [f \in DOMAIN dir \ { entry } |-> dir[f]] ELSE dir

BundleSlugs == { "home", "rehydrate" }

CounterIsland ==
    [ name |-> "Counter", filePath |-> "/p/src/components/Counter.tsx",
      importPath |-> "components/Counter" ]

\* what the output directory may hold before a call
PriorFiles == { "about.css", "about-hydrate.js", "sw.js" }

PriorOutDirs == { [f \in S |-> Artifact("prior", f)] : S \in SUBSET PriorFiles }

\* what the scratch directory may hold before a call
PriorScratch ==
    { <<>>, ("_temp_home_entry.tsx" :> Artifact("stale", "")),
      ("notes.txt" :> Artifact("prior", "notes.txt")) }

InitBundle ==
    /\ IdleHost
    /\ IdleScan
    /\ IdleImg
    /\ IdleDev
    /\ IdleLoader
    /\ userConfig = <<>>
    /\ resolved = ResolveConfig(userConfig)
    /\ cfgPc = "resolved"
    /\ options = [pages |-> <<>>, config |-> <<>>, hosting |-> FALSE, verbose |-> FALSE]
    /\ dirs = <<>>
    /\ isBuild = TRUE
    /\ hasRun = FALSE
    /\ pc = "idle"
    /\ inputIdx = 0
    /\ discovered = <<>>
    /\ pageIdx = 0
    /\ locals = NoLocals
    /\ generatedPages = <<>>
    /\ allPages = <<>>
    /\ outDir \in PriorOutDirs
    /\ failure = NoFailure
    /\ log = <<>>
    /\ hookCalls = NoHooks
    /\ bundleCall = NoBundleCall
    /\ bundlePc = "idle"
    /\ scratch \in PriorScratch
    /\ bundleResult = NoBundleResult
    /\ unlinked = {}

bundleRest == <<hostVars, cfgVars, scanVars, imgVars, devVars, loaderVars, options, dirs,
                isBuild, hasRun, pc, inputIdx, discovered, pageIdx, locals, generatedPages,
                allPages, failure, log, hookCalls>>

\* a builder is called; buildHydrationBundle returns at once when there is no island,
\* otherwise the entry file is written into the scratch directory
BundleEnter(kind, slug, islandList, ok, cssEmitted, chunks) ==
    /\ bundlePc \in { "idle", "returned", "failed" }
    /\ bundleCall.n < MaxBundles
    /\ \E call \in { [ kind |-> kind, slug |-> slug,
                       componentPath |-> "/p/src/pages/" \o slug \o ".tsx",
                       islands |-> islandList, ok |-> ok, cssEmitted |-> cssEmitted,
                       chunks |-> chunks, n |-> bundleCall.n + 1 ] } :
          /\ bundleCall' = call
          /\ unlinked' = {}
          /\ IF kind = "hydrate" /\ Len(islandList) = 0
             THEN /\ bundleResult' = [err |-> "", path |-> ""]
                  /\ bundlePc' = "returned"
                  /\ UNCHANGED scratch
             ELSE /\ scratch' = (EntryName(call) :> Artifact("entry", call.componentPath))
                                    @@ scratch
                  /\ bundleResult' = NoBundleResult
                  /\ bundlePc' = "try"
    /\ UNCHANGED <<bundleRest, outDir>>

\* await build({...}): the bundler emits its files, or throws
BundleBuild ==
    /\ bundlePc = "try"
    /\ IF bundleCall.ok
       THEN /\ outDir' = Emit(outDir, bundleCall)
            /\ bundlePc' = "built"
       ELSE /\ bundlePc' = "threw"
            /\ UNCHANGED outDir
    /\ UNCHANGED <<bundleRest, bundleCall, scratch, bundleResult, unlinked>>

\* the rest of the try block: buildCssBundle deletes JS files and looks for the CSS file;
\* buildHydrationBundle only forms its result
BundleResult ==
    /\ bundlePc = "built"
    /\ IF bundleCall.kind = "css"
       THEN LET kept == DOMAIN outDir \ SweptNames(outDir)
                cssFileName == bundleCall.slug \o ".css"
            IN /\ outDir' = [f \in kept |-> outDir[f]]
               /\ unlinked' = SweptNames(outDir)
               /\ bundleResult' =
                     [ err |-> "",
                       path |-> IF cssFileName \in kept
                                THEN resolved["baseUrl"].p \o "/" \o cssFileName ELSE "" ]
       ELSE /\ bundleResult' =
                  [ err |-> "",
                    path |-> resolved["baseUrl"].p \o "/" \o bundleCall.slug \o "-hydrate.js" ]
            /\ UNCHANGED <<outDir, unlinked>>
    /\ bundlePc' = "finally"
    /\ UNCHANGED <<bundleRest, bundleCall, scratch>>

\* the finally block, after the return statement or the bundler's exception
BundleFinally ==
    /\ bundlePc \in { "finally", "threw" }
    /\ scratch' = AfterTry(scratch, EntryName(bundleCall), bundlePc = "threw")
    /\ IF bundlePc = "threw"
       THEN /\ bundleResult' = [err |-> "build failed", path |-> ""]
            /\ bundlePc' = "failed"
       ELSE /\ bundlePc' = "returned"
            /\ UNCHANGED bundleResult
    /\ UNCHANGED <<bundleRest, bundleCall, outDir, unlinked>>

NextBundle ==
    \/ \E kind \in { "css", "hydrate" }, slug \in BundleSlugs,
          islandList \in { <<>>, << CounterIsland >> }, ok \in BOOLEAN,
          cssEmitted \in BOOLEAN, chunks \in 0..1 :
          BundleEnter(kind, slug, islandList, ok, cssEmitted, chunks)
    \/ BundleBuild
    \/ BundleResult
    \/ BundleFinally

SpecBundle == InitBundle /\ [][NextBundle]_vars

(***************************************************************************)
(* Claims about the bundle builders (checked under SpecBundle).            *)
(***************************************************************************)
BundleEnded == bundlePc \in { "returned", "failed" }

\* C24: once buildCssBundle or buildHydrationBundle has returned or failed, whether the
\* bundler succeeded or threw, the entry file the call wrote into the scratch directory
\* is not there any more.
C24_EntryFileRemovedOnEveryExit ==
    (BundleEnded /\ bundleCall.n > 0) => EntryName(bundleCall) \notin DOMAIN scratch

\* C24 witness: a CSS build whose bundler threw has ended, after an earlier call
C24_Witness ==
    /\ bundlePc = "failed"
    /\ bundleCall.kind = "css"
    /\ ~bundleCall.ok
    /\ bundleCall.n = 2
    /\ EntryName(bundleCall) \notin DOMAIN scratch

\* C25: the files buildCssBundle deletes from the output directory are exactly the JS
\* files its own bundler build emitted: none of them is left, and no other file is gone.
C25_DeletesExactlyOwnJs ==
    (bundlePc = "returned" /\ bundleCall.kind = "css") =>
        /\ unlinked = { f \in EmittedNames(bundleCall) : EndsWith(f, ".js") }
        /\ \A f \in EmittedNames(bundleCall) : EndsWith(f, ".js") => f \notin DOMAIN outDir

(***************************************************************************)
(* SpecLoader: a generated document in a browser.  The inline loader runs  *)
(* once when the document is parsed; afterwards user events are            *)
(* dispatched, the intersection observer reports entries and the idle or   *)
(* timeout callback fires, in any order.                                   *)
(***************************************************************************)
MaxTriggers == 3

MaxIslandEls == 2

\* the events the loader listens for, and one it does not
ListenedEvents == { "click", "touchstart", "mouseover", "scroll" }

UserEvents == ListenedEvents \cup { "keydown" }

\* the value of a JavaScript string literal none of whose characters is escaped
JsStringValue(literal) == SubSeq(literal, 2, Len(literal) - 1)

\* a slip in the loader: loadHydration without its flag
LoadHydration_NoFlag(st, src) ==
    [loaded |-> TRUE, scriptTags |-> Append(st.scriptTags, JsStringValue(src))]

\* html-template.ts, the inline loader's loadHydration; st is [loaded, scriptTags]
LoadHydration(st, src) ==
    IF st.loaded THEN st
    ELSE [loaded |-> TRUE, scriptTags |-> Append(st.scriptTags, JsStringValue(src))]

\* the observer's callback: entries.forEach(entry => { if (entry.isIntersecting) ... })
RECURSIVE ObserverCallback(_, _, _)
ObserverCallback(st, entries, src) ==
    IF entries = <<>> THEN st
    ELSE ObserverCallback(IF Head(entries) THEN LoadHydration(st, src) ELSE st,
                          Tail(entries), src)

\* the documents generateHtmlTemplate produces for a page with or without a hydration
\* bundle
LoaderDocuments ==
    { GenerateHtmlTemplate([ bodyContent |-> Html("<main>", <<>>), headContent |-> "",
                             cssPath |-> "/static/home.css", hydrateJsPath |-> h,
                             routeUrl |-> "/", imagePreloadTags |-> "",
                             config |-> ResolveConfig(<<>>) ]) :
        h \in { "", "/static/home-hydrate.js" } }

\* every non-empty list of at most n entries, each intersecting or not
EntryLists(n) == UNION { [1..k -> BOOLEAN] : k \in 1..n }

InitLoader ==
    /\ IdleHost
    /\ IdleCfg
    /\ IdleScan
    /\ IdleRun
    /\ IdleImg
    /\ IdleDev
    /\ IdleBundle
    /\ document \in { [html |-> d, islands |-> n, hasObserver |-> o, hasIdleCallback |-> c] :
                        d \in LoaderDocuments, n \in 0..MaxIslandEls, o \in BOOLEAN,
                        c \in BOOLEAN }
    /\ loaderPc = "parsed"
    /\ loaded = FALSE
    /\ listeners = {}
    /\ observer = "none"
    /\ fallback = "none"
    /\ scriptTags = <<>>
    /\ triggers = <<>>

loaderRest == <<hostVars, cfgVars, scanVars, runVars, hookCalls, imgVars, devVars, bundleVars>>

\* the inline script runs: the listeners are added, and the observer is created or the
\* idle or timeout callback is requested
LoaderRun ==
    /\ loaderPc = "parsed"
    /\ document.html.loaderSrc # ""
    /\ listeners' = ListenedEvents
    /\ observer' = IF document.hasObserver THEN "observing" ELSE "none"
    /\ fallback' = IF document.hasObserver THEN "none"
                   ELSE IF document.hasIdleCallback THEN "idle" ELSE "timeout"
    /\ loaderPc' = "armed"
    /\ UNCHANGED <<loaderRest, document, loaded, scriptTags, triggers>>

\* the user interacts: the event is dispatched on the document; a listener added with
\* { once: true } runs and is removed
UserEvent(e) ==
    /\ loaderPc = "armed"
    /\ Len(triggers) < MaxTriggers
    /\ triggers' = Append(triggers, e)
    /\ IF e \in listeners
       THEN \E st \in { LoadHydration([loaded |-> loaded, scriptTags |-> scriptTags],
                                      document.html.loaderSrc) } :
               /\ loaded' = st.loaded
               /\ scriptTags' = st.scriptTags
               /\ listeners' = listeners \ { e }
       ELSE UNCHANGED <<loaded, scriptTags, listeners>>
    /\ UNCHANGED <<loaderRest, document, loaderPc, observer, fallback>>

\* the observer reports entries of the observed islands
Intersection(entries) ==
    /\ loaderPc = "armed"
    /\ observer = "observing"
    /\ Len(entries) <= document.islands
    /\ \E st \in { ObserverCallback([loaded |-> loaded, scriptTags |-> scriptTags], entries,
                                    document.html.loaderSrc) } :
          /\ loaded' = st.loaded
          /\ scriptTags' = st.scriptTags
    /\ IF \E i \in 1..Len(entries) : entries[i]
       THEN /\ observer' = "disconnected"
            /\ triggers' = Append(triggers, "intersect")
       ELSE UNCHANGED <<observer, triggers>>
    /\ UNCHANGED <<loaderRest, document, loaderPc, listeners, fallback>>

\* requestIdleCallback's or setTimeout's callback runs
FallbackFire ==
    /\ loaderPc = "armed"
    /\ fallback \in { "idle", "timeout" }
    /\ \E st \in { LoadHydration([loaded |-> loaded, scriptTags |-> scriptTags],
                                 document.html.loaderSrc) } :
          /\ loaded' = st.loaded
          /\ scriptTags' = st.scriptTags
    /\ fallback' = "fired"
    /\ triggers' = Append(triggers, fallback)
    /\ UNCHANGED <<loaderRest, document, loaderPc, listeners, observer>>

NextLoader ==
    \/ LoaderRun
    \/ \E e \in UserEvents : UserEvent(e)
    \/ \E entries \in EntryLists(MaxIslandEls) : Intersection(entries)
    \/ FallbackFire

SpecLoader == InitLoader /\ [][NextLoader]_vars

(***************************************************************************)
(* Claims about the inline loader (checked under SpecLoader).              *)
(***************************************************************************)
\* C26: in a document with a hydration script path, no script element for the bundle is
\* appended before the first trigger (a user event, an island intersecting, or the idle
\* or timeout callback where there is no intersection observer), the element appended is
\* the bundle's, and over every sequence of triggers at most one is appended.
C26_BundleLoadedOnceAfterTrigger ==
    /\ Len(scriptTags) <= 1
    /\ scriptTags # <<>> =>
          /\ triggers # <<>>
          /\ document.html.loaderSrc # ""
          /\ JsonString(scriptTags[1]) = document.html.loaderSrc
    /\ (fallback # "none") => ~document.hasObserver

\* C26 witness: several triggers of different kinds have occurred, after a report of two
\* intersecting islands at once, and the bundle was requested once
C26_Witness ==
    /\ Len(triggers) = MaxTriggers
    /\ triggers[1] = "intersect"
    /\ document.islands = 2
    /\ "click" \notin listeners
    /\ "scroll" \notin listeners
    /\ scriptTags = << "/static/home-hydrate.js" >>

(***************************************************************************)
(* More claims about the dev middleware (checked under SpecDev).           *)
(***************************************************************************)
\* the last step was a request: the response is the middleware's doing
RequestDone == response # NoResponse

\* C27 as stated: the route cache changes only in the file-watch callback; handling a
\* request never changes it.
C27_CacheMutatedOnlyByWatcher ==
    [][cachedRoutes' # cachedRoutes => response' = NoResponse]_vars

\* C27 amended: a filled route cache changes only in the file-watch callback, which
\* empties it; handling a request never empties or alters a filled cache, and changes an
\* empty one only by filling it with the routes discovered in the files as they are.
C27_CacheEmptiedOnlyByWatcher ==
    [][/\ (cachedRoutes.loaded /\ cachedRoutes' # cachedRoutes) =>
              (response' = NoResponse /\ cachedRoutes' = NoRoutes)
       /\ (~cachedRoutes.loaded /\ cachedRoutes' # cachedRoutes) =>
              (response' # NoResponse
               /\ cachedRoutes' = [loaded |-> TRUE, routes |-> KnownRoutes])]_vars

\* C27 witness: the second step was a request served from a filled cache that holds the
\* routes of two pages
C27_Witness ==
    /\ devCalls = 2
    /\ RequestDone
    /\ request.url = "/docs"
    /\ response.ended = 1
    /\ cachedRoutes.loaded
    /\ Len(cachedRoutes.routes) = 2
    /\ cachedRoutes.routes = KnownRoutes

\* C30: for every request the middleware either ends the response itself or hands the
\* request to the next handler: never both and never neither, also when discovering the
\* routes or reading a file fails.
C30_EndsOrPassesExactlyOnce ==
    RequestDone => response.ended + response.nexted = 1

(***************************************************************************)
(* More claims about the hosting configurator (checked under SpecHost).    *)
(***************************************************************************)
\* the rules of the array before the last call that an earlier call inserted
HostEarlier == { i \in 1..Len(hostLast.before) : hostLast.before[i].by # 0 }

\* every rule an earlier call inserted was inserted under the last call's base URL
HostSameBase ==
    \A i \in HostEarlier : StartsWith(hostLast.before[i].destination, hostLast.baseUrl \o "/")

\* the last call, made again on the manifest as it is now
HostAgain == Configure(manifest, hostLast.pages, hostLast.baseUrl, hostCalls)

MarkerName(component) == GetComponentName(component)

\* the files the entry module binds to a name, over all its import declarations
BoundTo(script, name) ==
    { script.imports[i].from : i \in { k \in 1..Len(script.imports) : script.imports[k].binding = name } }

\* C29: in the generated hydration entry each validated island's marker name (the
\* last segment of its import path) is bound to that island's own file and to no
\* other, and no two distinct validated islands have the same import binding or
\* the same registry key.
C29_MarkerNameResolvesToOwnIsland ==
    scanPc = "done" =>
        /\ \A i \in 1..Len(islands) :
              BoundTo(hydrateScript, MarkerName(islands[i].importPath)) = { islands[i].filePath }
        /\ \A i, j \in 1..Len(islands) :
              i # j => /\ hydrateScript.imports[i].binding # hydrateScript.imports[j].binding
                       /\ hydrateScript.registry[i] # hydrateScript.registry[j]

====
